---- MODULE Spec2Model ----
(***************************************************************************)
(* Git-Wiz console: the single-flight background TaskRunner with the       *)
(* render loop that drains it (src/tui/tasks.rs, src/tui/mod.rs,           *)
(* src/tui/app.rs) and the tag-release pipeline (src/release.rs,           *)
(* src/main.rs, src/tui/app.rs).                                           *)
(*                                                                         *)
(* Four state machines share this module:                                  *)
(*   Spec / FairSpec  the UI thread (run_tui loop) and the worker threads  *)
(*                    spawned by TaskRunner::start;                        *)
(*   ReleaseSpec      one release run after another, through the library   *)
(*                    pipeline, the TUI entry and the CLI flow;            *)
(*   VersionSpec      the version functions of src/release.rs and of the   *)
(*                    CLI applied to version texts and Cargo.toml files;   *)
(*   KeySpec          key presses dispatched to the App, with the task     *)
(*                    runner, the suspended terminal and the release.      *)
(***************************************************************************)
EXTENDS Integers, Sequences, FiniteSets, TLC

VARIABLES
    current,    \* TaskState.current: Option<RunningTask> behind the state mutex
    chan,       \* the mpsc channel tx -> rx of TaskEvents, FIFO
    workers,    \* the worker threads spawned by start: task id -> thread state
    app,        \* App: the UI-owned state the events are applied to
    uiPc,       \* position of the UI thread in the run_tui loop
    nCalls,     \* number of input operations handled so far (bounded)
    emitted,    \* history: every event sent on the channel, in send order
    applied,    \* history: every event apply_event has applied, in order
    calls,      \* history: every start_* / start call: what it saw and returned
    rel,        \* the release run in progress (position, plan, config, trace)
    world,      \* the repository and remote the release pipeline acts on
    lockAtSend, \* history: for every event sent, whether the sender held the state lock
    term,       \* the terminal: raw mode and alternate screen
    keys,       \* history: every key press dispatched, with what handled it
    calc        \* the version function being applied, its input and its result

taskVars == <<current, chan, workers, app, uiPc, nCalls, emitted, applied, calls, lockAtSend>>
relVars == <<rel, world, term, keys, calc>>
uiVars == <<term, keys>>
vars ==
    <<current, chan, workers, app, uiPc, nCalls, emitted, applied, calls, rel,
      world, lockAtSend, term, keys, calc>>

(***************************************************************************)
(* Bounds of the model.                                                    *)
(***************************************************************************)
MaxCalls == 2
MaxRuns == 2

(***************************************************************************)
(* Program constants.                                                      *)
(***************************************************************************)
LogCap == 200

(***************************************************************************)
(* TaskRunner data (src/tui/tasks.rs).                                     *)
(***************************************************************************)
TaskKinds ==
    {"GenerateCommitFromStaged", "CommitFromEditor", "StageAll", "PushBranch",
     "PushTag", "PushAllTags", "LoadDiff"}

NoTask == [label |-> "None"]

RunningTask(label, started_at) == [label |-> label, started_at |-> started_at]

\* `task` is a history tag (the ordinal of the accepted start the event belongs
\* to); the other fields are the fields of the Rust enum variant.
StartedEvent(task, kind, label, started_at) ==
    [type |-> "Started", task |-> task, kind |-> kind, label |-> label,
     started_at |-> started_at]

ProgressEvent(task, message) ==
    [type |-> "Progress", task |-> task, message |-> message]

CompletedEvent(task, result) ==
    [type |-> "Completed", task |-> task, result |-> result]

OkMessage(status, log) == [variant |-> "OkMessage", status |-> status, log |-> log]

GeneratedCommitMessage(message, summary, provider, model) ==
    [variant |-> "GeneratedCommitMessage", message |-> message,
     summary |-> summary, provider |-> provider, model |-> model]

LoadedDiff(source, text, status) ==
    [variant |-> "LoadedDiff", source |-> source, text |-> text, status |-> status]

ErrorResult(message) == [variant |-> "Error", message |-> message]

\* The value a work closure returns: anyhow::Result<TaskResult>.
WorkOk(result) == [ok |-> TRUE, value |-> result]

WorkErr(message) == [ok |-> FALSE, error |-> message]

NoOutcome == [ok |-> FALSE, error |-> "(still running)"]

(***************************************************************************)
(* App helpers (src/tui/app.rs).                                           *)
(***************************************************************************)
NoVersion == "(none)"

NoPurpose == "(none)"

\* ModalState::none() and the modals the handlers open. The title of a modal
\* is display text only; the message is kept, as the final confirmation of a
\* release names the version in it.
ModalNone ==
    [kind |-> "None", message |-> "", confirm_purpose |-> NoPurpose,
     input_purpose |-> NoPurpose, input_value |-> ""]

\* The messages activate_selected_action gives the modals it opens (467-537).
ModalMessage(purpose) ==
    CASE purpose = "PushSpecificTag" -> "Enter a tag to push (e.g. v0.2.3)"
      [] purpose = "PushAllTags" -> "Push ALL tags? This may trigger releases (v*)."
      [] purpose = "ReleaseCustomVersion" -> "Enter version (e.g. 0.3.0)"
      [] purpose = "ClearConfig" ->
            "Clear config? This will delete the local config file."

ConfirmModal(purpose) ==
    [kind |-> "Confirm", message |-> ModalMessage(purpose), confirm_purpose |-> purpose,
     input_purpose |-> NoPurpose, input_value |-> ""]

TextInputModal(purpose) ==
    [kind |-> "TextInput", message |-> ModalMessage(purpose),
     confirm_purpose |-> NoPurpose, input_purpose |-> purpose, input_value |-> ""]

\* The final confirmation of a release, with the question that
\* start_release_bump (1411-1417) or handle_text_input (913-918) puts to it.
ReleaseConfirmModal(message) ==
    [kind |-> "Confirm", message |-> message, confirm_purpose |-> "ReleaseTrigger",
     input_purpose |-> NoPurpose, input_value |-> ""]

BumpQuestion(old_version, new_version, tag) ==
    "Bump " \o old_version \o " -> " \o new_version \o " and push tag " \o tag
        \o "? This triggers CI release + crates publish."

CustomQuestion(v) ==
    "Create and push tag v" \o v \o "? This triggers CI release + crates publish."

\* App::new (265-305).
InitApp ==
    [status |-> [level |-> "Info", message |-> "Press ? for help."],
     logs |-> <<>>,
     running_task |-> NoTask,
     commit_text |-> "",
     diff_source_label |-> "Staged (recommended)",
     diff_summary |-> "No diff loaded",
     provider_label |-> "Not configured",
     model_label |-> "-",
     diff_view_source |-> "Staged",
     diff_scroll |-> 0,
     diff_text |-> "",
     active_tab |-> "Generate",
     focus |-> "CommitEditor",
     show_help |-> TRUE,
     modal |-> ModalNone,
     action_index |-> 0,
     pending_release_version |-> NoVersion,
     should_quit |-> FALSE]

SetStatus(a, level, message) ==
    [a EXCEPT !.status = [level |-> level, message |-> message]]

\* Variant of App::log that drops the line pushed last once the log is full.
LogDropsNewest(a, line) ==
    LET pushed == Append(a.logs, line)
    IN  [a EXCEPT !.logs =
            IF Len(pushed) > LogCap THEN SubSeq(pushed, 1, LogCap) ELSE pushed]

Log(a, line) ==
    LET pushed == Append(a.logs, line)
    IN  [a EXCEPT !.logs =
            IF Len(pushed) > LogCap
            THEN SubSeq(pushed, Len(pushed) - LogCap + 1, Len(pushed))
            ELSE pushed]

\* str::to_lowercase on the DiffViewSource labels.
Lower(s) ==
    CASE s = "Staged" -> "staged"
      [] s = "Unstaged" -> "unstaged"
      [] s = "Both" -> "both"
      [] OTHER -> s

StartsWith(s, p) == Len(s) >= Len(p) /\ SubSeq(s, 1, Len(p)) = p

EndsWith(s, p) == Len(s) >= Len(p) /\ SubSeq(s, Len(s) - Len(p) + 1, Len(s)) = p

\* str::find: the position of the first occurrence of p in s, 0 for None.
Find(s, p) ==
    LET at == {i \in 1..(Len(s) - Len(p) + 1) : SubSeq(s, i, i + Len(p) - 1) = p}
    IN  IF at = {} THEN 0 ELSE CHOOSE i \in at : \A j \in at : i <= j

Contains(s, p) == Find(s, p) # 0

RECURSIVE TrimStart(_)
TrimStart(s) ==
    IF StartsWith(s, " ") THEN TrimStart(SubSeq(s, 2, Len(s))) ELSE s

RECURSIVE TrimEnd(_)
TrimEnd(s) ==
    IF EndsWith(s, " ") THEN TrimEnd(SubSeq(s, 1, Len(s) - 1)) ELSE s

\* str::replace: every occurrence of from, left to right, non-overlapping.
RECURSIVE Replace(_, _, _)
Replace(s, from, to) ==
    LET i == Find(s, from)
    IN  IF i = 0 THEN s
        ELSE SubSeq(s, 1, i - 1) \o to \o
             Replace(SubSeq(s, i + Len(from), Len(s)), from, to)

\* str::split('.'): the parts between the dots, empty parts included.
RECURSIVE SplitDots(_)
SplitDots(s) ==
    LET i == Find(s, ".")
    IN  IF i = 0 THEN <<s>>
        ELSE <<SubSeq(s, 1, i - 1)>> \o SplitDots(SubSeq(s, i + 1, Len(s)))

\* str::trim.
Trim(s) == TrimEnd(TrimStart(s))

(***************************************************************************)
(* TaskRunner operations.                                                  *)
(***************************************************************************)
IsBusy(cur) == cur # NoTask

\* Variant of start that never looks at `current`.
StartNoBusyCheck(cur, kind, label, id) ==
    [ret |-> TRUE,
     current |-> RunningTask(label, id),
     sent |-> <<StartedEvent(id, kind, label, id)>>,
     held |-> <<TRUE>>,
     spawn |-> TRUE]

\* Variant of start that leaves the locked block before it sends Started.
StartSendsUnlocked(cur, kind, label, id) ==
    IF cur # NoTask
    THEN [ret |-> FALSE, current |-> cur, sent |-> <<>>, held |-> <<>>, spawn |-> FALSE]
    ELSE [ret |-> TRUE,
          current |-> RunningTask(label, id),
          sent |-> <<StartedEvent(id, kind, label, id)>>,
          held |-> <<FALSE>>,
          spawn |-> TRUE]

\* start: what one call does to the shared state, the channel and the thread
\* table. id is the ordinal this start gets if it is accepted. held says, for
\* each event sent, whether the MutexGuard `s` was alive at the send: the
\* tx.send(Started) is inside the block that holds it.
Start(cur, kind, label, id) ==
    IF cur # NoTask
    THEN [ret |-> FALSE, current |-> cur, sent |-> <<>>, held |-> <<>>, spawn |-> FALSE]
    ELSE [ret |-> TRUE,
          current |-> RunningTask(label, id),
          sent |-> <<StartedEvent(id, kind, label, id)>>,
          held |-> <<TRUE>>,
          spawn |-> TRUE]

\* The worker thread and the closure own a clone of tx and nothing else of
\* the runner: they never take the state lock.
WorkerHoldsLock == FALSE

\* Variant of the conversion that reports a failed closure as a success.
ResultOfSwallowsError(outcome) ==
    IF outcome.ok THEN outcome.value ELSE OkMessage("Done.", "None")

\* unwrap_or_else in the worker: Ok(r) is r, Err(e) is TaskResult::Error.
ResultOf(outcome) ==
    IF outcome.ok THEN outcome.value ELSE ErrorResult(outcome.error)

\* Variant of the receive that takes the newest event first.
TryRecvNewest(q) == [ev |-> q[Len(q)], rest |-> SubSeq(q, 1, Len(q) - 1)]

\* rx.try_recv() on a non-empty channel: the oldest event.
TryRecv(q) == [ev |-> Head(q), rest |-> Tail(q)]

\* Variant of the Completed arm in which a loaded diff keeps the scroll offset
\* of the diff it replaces.
ApplyResultKeepsScroll(a, result) ==
    CASE result.variant = "OkMessage" ->
            LET s == SetStatus(a, "Success", result.status)
            IN  IF result.log # "None" THEN Log(s, result.log) ELSE s
      [] result.variant = "GeneratedCommitMessage" ->
            Log(SetStatus([a EXCEPT !.diff_source_label = "Staged (recommended)",
                                    !.diff_summary = result.summary,
                                    !.provider_label = result.provider,
                                    !.model_label = result.model,
                                    !.commit_text = result.message],
                          "Success", "Generated."),
                "Generated commit message.")
      [] result.variant = "LoadedDiff" ->
            Log(SetStatus([a EXCEPT !.diff_view_source = result.source,
                                    !.diff_text = result.text],
                          "Success", result.status),
                "Loaded diff.")
      [] result.variant = "Error" ->
            Log(SetStatus(a, "Error", result.message), "Error: " \o result.message)

ApplyResult(a, result) ==
    CASE result.variant = "OkMessage" ->
            LET s == SetStatus(a, "Success", result.status)
            IN  IF result.log # "None" THEN Log(s, result.log) ELSE s
      [] result.variant = "GeneratedCommitMessage" ->
            Log(SetStatus([a EXCEPT !.diff_source_label = "Staged (recommended)",
                                    !.diff_summary = result.summary,
                                    !.provider_label = result.provider,
                                    !.model_label = result.model,
                                    !.commit_text = result.message],
                          "Success", "Generated."),
                "Generated commit message.")
      [] result.variant = "LoadedDiff" ->
            Log(SetStatus([a EXCEPT !.diff_view_source = result.source,
                                    !.diff_scroll = 0,
                                    !.diff_text = result.text],
                          "Success", result.status),
                "Loaded diff.")
      [] result.variant = "Error" ->
            Log(SetStatus(a, "Error", result.message), "Error: " \o result.message)

\* Variant of apply_event in which a Progress event clears the running task.
ApplyEventProgressClears(a, cur, ev) ==
    CASE ev.type = "Started" ->
            [app |-> SetStatus(a, "Info", ev.label),
             current |-> RunningTask(ev.label, ev.started_at)]
      [] ev.type = "Progress" ->
            [app |-> Log(SetStatus(a, "Info", ev.message), ev.message),
             current |-> NoTask]
      [] ev.type = "Completed" ->
            [app |-> ApplyResult(a, ev.result), current |-> NoTask]

\* Variant of apply_event in which Completed leaves the running task set.
ApplyEventCompletedKeeps(a, cur, ev) ==
    CASE ev.type = "Started" ->
            [app |-> SetStatus(a, "Info", ev.label),
             current |-> RunningTask(ev.label, ev.started_at)]
      [] ev.type = "Progress" ->
            [app |-> Log(SetStatus(a, "Info", ev.message), ev.message),
             current |-> cur]
      [] ev.type = "Completed" ->
            [app |-> ApplyResult(a, ev.result), current |-> cur]

ApplyEvent(a, cur, ev) ==
    CASE ev.type = "Started" ->
            [app |-> SetStatus(a, "Info", ev.label),
             current |-> RunningTask(ev.label, ev.started_at)]
      [] ev.type = "Progress" ->
            [app |-> Log(SetStatus(a, "Info", ev.message), ev.message),
             current |-> cur]
      [] ev.type = "Completed" ->
            [app |-> ApplyResult(a, ev.result), current |-> NoTask]

(***************************************************************************)
(* The start_* functions of App (src/tui/app.rs 927-1218): one per         *)
(* background action. Each checks is_busy, then is_repo, then its own      *)
(* input, then calls TaskRunner::start.                                    *)
(***************************************************************************)
ActionName(kind) ==
    CASE kind = "GenerateCommitFromStaged" -> "Generate"
      [] kind = "CommitFromEditor" -> "Commit"
      [] kind = "StageAll" -> "Stage all"
      [] kind = "LoadDiff" -> "Load diff"
      [] kind = "PushBranch" -> "Push branch"
      [] kind = "PushTag" -> "Push tag"
      [] kind = "PushAllTags" -> "Push all tags"

LabelOf(kind, arg) ==
    CASE kind = "GenerateCommitFromStaged" -> "Generating commit message (staged)..."
      [] kind = "CommitFromEditor" -> "Committing..."
      [] kind = "StageAll" -> "Staging all changes..."
      [] kind = "LoadDiff" -> "Loading " \o arg \o " diff..."
      [] kind = "PushBranch" -> "Pushing branch..."
      [] kind = "PushTag" -> "Pushing tag " \o Trim(arg) \o "..."
      [] kind = "PushAllTags" -> "Pushing all tags..."

BusyMessage == "Busy: another task is running."

NotRepoMessage == "Not a git repository (or git is not installed)."

Rejected(a, cur, level, message, line, ret) ==
    [app |-> Log(SetStatus(a, level, message), line),
     current |-> cur, sent |-> <<>>, held |-> <<>>, spawn |-> FALSE, ret |-> ret]

\* Variant of the start_* functions that looks at the repository before it
\* looks at the runner.
StartActionRepoFirst(a, cur, kind, arg, isRepo, id) ==
    IF ~isRepo
    THEN Rejected(a, cur, "Error", NotRepoMessage,
                  ActionName(kind) \o " failed: not a git repository.", TRUE)
    ELSE IF IsBusy(cur)
    THEN Rejected(a, cur, "Info", BusyMessage,
                  "Ignored: tried to start " \o ActionName(kind)
                      \o " while another task is running.", FALSE)
    ELSE IF kind = "CommitFromEditor" /\ Trim(a.commit_text) = ""
    THEN Rejected(a, cur, "Error", "Commit message is empty.",
                  "Commit failed: empty message.", TRUE)
    ELSE IF kind = "PushTag" /\ Trim(arg) = ""
    THEN Rejected(a, cur, "Error", "Tag cannot be empty.",
                  "Push tag failed: empty tag.", TRUE)
    ELSE LET r == Start(cur, kind, LabelOf(kind, arg), id)
         IN  [app |-> IF r.ret THEN a
                      ELSE Log(SetStatus(a, "Info", BusyMessage),
                               ActionName(kind) \o " ignored: task runner was busy."),
              current |-> r.current, sent |-> r.sent, held |-> r.held,
              spawn |-> r.spawn,
              ret |-> r.ret]

StartAction(a, cur, kind, arg, isRepo, id) ==
    IF IsBusy(cur)
    THEN Rejected(a, cur, "Info", BusyMessage,
                  "Ignored: tried to start " \o ActionName(kind)
                      \o " while another task is running.", FALSE)
    ELSE IF ~isRepo
    THEN Rejected(a, cur, "Error", NotRepoMessage,
                  ActionName(kind) \o " failed: not a git repository.", TRUE)
    ELSE IF kind = "CommitFromEditor" /\ Trim(a.commit_text) = ""
    THEN Rejected(a, cur, "Error", "Commit message is empty.",
                  "Commit failed: empty message.", TRUE)
    ELSE IF kind = "PushTag" /\ Trim(arg) = ""
    THEN Rejected(a, cur, "Error", "Tag cannot be empty.",
                  "Push tag failed: empty tag.", TRUE)
    ELSE LET r == Start(cur, kind, LabelOf(kind, arg), id)
         IN  [app |-> IF r.ret THEN a
                      ELSE Log(SetStatus(a, "Info", BusyMessage),
                               ActionName(kind) \o " ignored: task runner was busy."),
              current |-> r.current, sent |-> r.sent, held |-> r.held,
              spawn |-> r.spawn,
              ret |-> r.ret]

\* The argument each start_* function can be called with.
ActionArgs(kind) ==
    CASE kind = "LoadDiff" -> {"Staged", "Unstaged", "Both"}
      [] kind = "PushTag" -> {"v0.2.3"}
      [] OTHER -> {"-"}

EditorTexts == {"", "fix: typo"}

(***************************************************************************)
(* The work closures: what a worker thread can return, by position.        *)
(***************************************************************************)
WorkFailure(kind) == ActionName(kind) \o ": command failed"

WorkSuccess(kind, arg) ==
    CASE kind = "GenerateCommitFromStaged" ->
            GeneratedCommitMessage("feat: generated", "1 files, +1 -0", "Mock", "-")
      [] kind = "CommitFromEditor" ->
            OkMessage("Committed successfully.", "Committed changes.")
      [] kind = "StageAll" -> OkMessage("Staged all changes.", "Staged all changes.")
      [] kind = "LoadDiff" -> LoadedDiff(arg, "diff --git", "Loaded " \o Lower(arg) \o " diff.")
      [] kind = "PushBranch" -> OkMessage("Branch pushed.", "Branch pushed.")
      [] kind = "PushTag" -> OkMessage("Tag pushed: " \o arg, "Tag pushed: " \o arg)
      [] kind = "PushAllTags" -> OkMessage("All tags pushed.", "All tags pushed.")

\* Only the generate closure reports progress: once before it reads the diff,
\* once before it calls the provider.
ProgressAt(kind, pc) ==
    IF kind # "GenerateCommitFromStaged" THEN {}
    ELSE IF pc = "run" THEN {"Collecting staged diff..."}
    ELSE IF pc = "p1" THEN {"Generating with Mock..."}
    ELSE {}

OutcomesAt(kind, arg, pc) ==
    IF kind = "GenerateCommitFromStaged"
    THEN IF pc = "p1" THEN {WorkErr(WorkFailure(kind))}
         ELSE IF pc = "p2" THEN {WorkOk(WorkSuccess(kind, arg)), WorkErr(WorkFailure(kind))}
         ELSE {}
    ELSE IF pc = "run"
         THEN {WorkOk(WorkSuccess(kind, arg)), WorkErr(WorkFailure(kind))}
         ELSE {}

NextPc(pc) == IF pc = "run" THEN "p1" ELSE "p2"

(***************************************************************************)
(* The UI thread (run_tui, src/tui/mod.rs 54-86) and the worker threads.   *)
(* Each pass of the loop drains the channel event by event (workers may    *)
(* send while it drains), snapshots the running task, draws, and handles   *)
(* at most one input.                                                      *)
(***************************************************************************)
Worker(kind, arg) == [kind |-> kind, arg |-> arg, pc |-> "run", outcome |-> NoOutcome]

\* History of one call: pending is the number of accepted starts whose
\* Completed had not been applied when the call was made, window whether a
\* Completed was waiting in the channel at that moment.
Call(op, kind, ret) ==
    [op |-> op, kind |-> kind, ret |-> ret,
     pending |-> Len(workers)
                   - Cardinality({i \in DOMAIN applied : applied[i].type = "Completed"}),
     window |-> \E i \in DOMAIN chan : chan[i].type = "Completed"]

TaskInit ==
    /\ current = NoTask
    /\ chan = <<>>
    /\ workers = <<>>
    /\ app = InitApp
    /\ uiPc = "drain"
    /\ nCalls = 0
    /\ emitted = <<>>
    /\ applied = <<>>
    /\ calls = <<>>
    /\ lockAtSend = <<>>

\* drain_events, one iteration that receives an event and applies it.
DrainApply ==
    /\ uiPc = "drain"
    /\ chan # <<>>
    /\ LET got == TryRecv(chan)
           r == ApplyEvent(app, current, got.ev)
       IN  /\ chan' = got.rest
           /\ app' = r.app
           /\ current' = r.current
           /\ applied' = Append(applied, got.ev)
    /\ UNCHANGED <<workers, uiPc, nCalls, emitted, calls, rel, world, lockAtSend, term, keys, calc>>

\* Variant of the loop body that draws without taking the snapshot of the
\* running task.
DrainEmptyNoSnapshot ==
    /\ uiPc = "drain"
    /\ chan = <<>>
    /\ uiPc' = "input"
    /\ UNCHANGED <<current, chan, workers, app, nCalls, emitted, applied, calls, rel, world, lockAtSend, term, keys, calc>>

\* drain_events sees Empty and returns; tick_spinner touches only the spinner
\* index (not modelled); the running task is snapshotted into App; draw.
DrainEmpty ==
    /\ uiPc = "drain"
    /\ chan = <<>>
    /\ app' = [app EXCEPT !.running_task = current]
    /\ uiPc' = "input"
    /\ UNCHANGED <<current, chan, workers, nCalls, emitted, applied, calls, rel, world, lockAtSend, term, keys, calc>>

\* A key press that reaches one of the start_* functions.
Activate(kind, arg, isRepo) ==
    /\ uiPc = "input"
    /\ nCalls < MaxCalls
    /\ LET r == StartAction(app, current, kind, arg, isRepo, Len(workers) + 1)
       IN  /\ app' = r.app
           /\ current' = r.current
           /\ chan' = chan \o r.sent
           /\ emitted' = emitted \o r.sent
           /\ lockAtSend' = lockAtSend \o r.held
           /\ workers' = IF r.spawn THEN Append(workers, Worker(kind, arg)) ELSE workers
           /\ calls' = Append(calls, Call("activate", kind, r.ret))
    /\ nCalls' = nCalls + 1
    /\ uiPc' = "drain"
    /\ UNCHANGED <<applied, rel, world, term, keys, calc>>

\* TaskRunner::start called as the public method it is, without the is_busy
\* pre-check of the start_* functions.
CallStart(kind, arg) ==
    /\ uiPc = "input"
    /\ nCalls < MaxCalls
    /\ LET r == Start(current, kind, LabelOf(kind, arg), Len(workers) + 1)
       IN  /\ current' = r.current
           /\ chan' = chan \o r.sent
           /\ emitted' = emitted \o r.sent
           /\ lockAtSend' = lockAtSend \o r.held
           /\ workers' = IF r.spawn THEN Append(workers, Worker(kind, arg)) ELSE workers
           /\ calls' = Append(calls, Call("start", kind, r.ret))
    /\ nCalls' = nCalls + 1
    /\ uiPc' = "drain"
    /\ UNCHANGED <<app, applied, rel, world, term, keys, calc>>

\* Typing in the commit-message editor (handle_generate_key).
EditorInput(text) ==
    /\ uiPc = "input"
    /\ app.commit_text # text
    /\ app' = [app EXCEPT !.commit_text = text]
    /\ uiPc' = "drain"
    /\ UNCHANGED <<current, chan, workers, nCalls, emitted, applied, calls, rel, world, lockAtSend, term, keys, calc>>

\* event::poll times out, or the key changes nothing modelled here.
NoInput ==
    /\ uiPc = "input"
    /\ uiPc' = "drain"
    /\ UNCHANGED <<current, chan, workers, app, nCalls, emitted, applied, calls, rel, world, lockAtSend, term, keys, calc>>

\* The closure sends a Progress event on its clone of tx.
WorkerProgress(t) ==
    /\ t \in DOMAIN workers
    /\ \E m \in ProgressAt(workers[t].kind, workers[t].pc) :
          LET ev == ProgressEvent(t, m)
          IN  /\ chan' = Append(chan, ev)
              /\ emitted' = Append(emitted, ev)
              /\ lockAtSend' = Append(lockAtSend, WorkerHoldsLock)
    /\ workers' = [workers EXCEPT ![t].pc = NextPc(@)]
    /\ UNCHANGED <<current, app, uiPc, nCalls, applied, calls, rel, world, term, keys, calc>>

\* The closure returns; the thread converts the value and sends Completed.
WorkerFinish(t) ==
    /\ t \in DOMAIN workers
    /\ \E out \in OutcomesAt(workers[t].kind, workers[t].arg, workers[t].pc) :
          LET ev == CompletedEvent(t, ResultOf(out))
          IN  /\ chan' = Append(chan, ev)
              /\ emitted' = Append(emitted, ev)
              /\ lockAtSend' = Append(lockAtSend, WorkerHoldsLock)
              /\ workers' = [workers EXCEPT ![t].pc = "done", ![t].outcome = out]
    /\ UNCHANGED <<current, app, uiPc, nCalls, applied, calls, rel, world, term, keys, calc>>

UiStep ==
    \/ DrainApply
    \/ DrainEmpty
    \/ \E kind \in TaskKinds : \E arg \in ActionArgs(kind) : \E isRepo \in BOOLEAN :
          Activate(kind, arg, isRepo)
    \/ \E kind \in TaskKinds : \E arg \in ActionArgs(kind) : CallStart(kind, arg)
    \/ \E text \in EditorTexts : EditorInput(text)
    \/ NoInput

WorkerStep ==
    \E t \in DOMAIN workers : WorkerProgress(t) \/ WorkerFinish(t)

(***************************************************************************)
(* The release pipeline (src/release.rs, src/tui/app.rs perform_release,   *)
(* src/main.rs run_release_flow).                                          *)
(*                                                                         *)
(* world is what git, cargo and the file system hold; every step reads it  *)
(* or changes it the way the command it runs does. A run is one call of    *)
(* run_tag_release ("lib"), of App::perform_release ("tui") or of          *)
(* run_release_flow ("cli"); rel.steps is the trace of the steps the run   *)
(* has executed and rel.world0 the world it started from.                  *)
(***************************************************************************)
Versions == {"1.2.3", "1.2.4", "1.3.0"}

InitialVersion == "1.2.3"

InitialTags == {"v1.2.4"}

Branches == {"master", "feature"}

TagOf(version) == "v" \o version

ReleasePlan(old, new) == [old_version |-> old, new_version |-> new, tag |-> TagOf(new)]

NoPlan == [old_version |-> "", new_version |-> "", tag |-> ""]

\* PreflightConfig and ReleaseGuardrailConfig of one run.
ReleaseConfig(fmt, clippy, test, expected) ==
    [fmt_check |-> fmt, clippy_deny_warnings |-> clippy, test_locked |-> test,
     remote |-> "origin", expected_branch |-> expected]

\* PreflightConfig::default() and ReleaseGuardrailConfig::default().
DefaultConfig == ReleaseConfig(TRUE, TRUE, TRUE, "master")

\* assert_release_guardrails: the order of its checks.
GuardrailOrder == <<"repo", "remote", "clean", "branch">>

\* run_preflight: the order of its checks.
PreflightOrder == <<"fmt", "clippy", "test">>

\* Variant of run_tag_release that bumps the version before the preflight.
RunTagReleaseOrderBumpFirst ==
    GuardrailOrder \o <<"bump", "lockfile">> \o PreflightOrder \o
    <<"stage", "commit", "tag_local", "tag_remote", "create_tag", "push_tag">>

\* run_tag_release: the order of its calls.
RunTagReleaseOrder ==
    GuardrailOrder \o PreflightOrder \o
    <<"bump", "lockfile", "stage", "commit", "tag_local", "tag_remote",
      "create_tag", "push_tag">>

\* App::perform_release: plan_custom, the commit message, then run_tag_release.
PerformReleaseOrder == <<"plan", "genmsg">> \o RunTagReleaseOrder

\* run_release_flow of the CLI menu.
RunReleaseFlowOrder ==
    <<"repo", "clean", "remote", "branch", "fmt", "clippy", "test", "select",
      "confirm", "bump", "lockfile", "stage", "genmsg", "commit",
      "final_confirm", "tag_local", "tag_remote", "create_tag", "push_tag">>

OrderOf(flow) ==
    CASE flow = "lib" -> RunTagReleaseOrder
      [] flow = "tui" -> PerformReleaseOrder
      [] flow = "cli" -> RunReleaseFlowOrder

\* Which steps a configuration switches off (`if cfg.x` / `if let Some`).
StepEnabled(step, cfg) ==
    CASE step = "fmt" -> cfg.fmt_check
      [] step = "clippy" -> cfg.clippy_deny_warnings
      [] step = "test" -> cfg.test_locked
      [] step = "branch" -> cfg.expected_branch # "None"
      [] OTHER -> TRUE

StepsFrom(order, from, cfg) ==
    {j \in from..Len(order) : StepEnabled(order[j], cfg)}

FirstOf(S) == CHOOSE j \in S : \A k \in S : j <= k

\* The step that follows pc when pc succeeded ("done" after the last one).
StepAfter(flow, pc, cfg) ==
    LET order == OrderOf(flow)
        i == CHOOSE j \in 1..Len(order) : order[j] = pc
        later == StepsFrom(order, i + 1, cfg)
    IN  IF later = {} THEN "done" ELSE order[FirstOf(later)]

FirstStep(flow, cfg) == OrderOf(flow)[FirstOf(StepsFrom(OrderOf(flow), 1, cfg))]

\* The step at r.pc ran: it is appended to the trace and the run moves on.
Proceed(r, ok) ==
    [r EXCEPT !.steps = Append(@, [step |-> r.pc, ok |-> ok]),
              !.pc = StepAfter(r.flow, r.pc, r.cfg),
              !.result = IF StepAfter(r.flow, r.pc, r.cfg) = "done" THEN "Ok" ELSE "none"]

\* Variant of the error path that records the failure and carries on.
FailAndContinue(r, error) ==
    [r EXCEPT !.steps = Append(@, [step |-> r.pc, ok |-> FALSE]),
              !.pc = StepAfter(r.flow, r.pc, r.cfg),
              !.result = "Err", !.error = error]

\* `?` / bail!: the run ends and the error is returned to the caller.
Fail(r, error) ==
    [r EXCEPT !.steps = Append(@, [step |-> r.pc, ok |-> FALSE]),
              !.pc = "done", !.result = "Err", !.error = error]

\* The CLI's `print_error(..); return Ok(())` and its Back / Cancel choices.
Leave(r, ok, printed) ==
    [r EXCEPT !.steps = Append(@, [step |-> r.pc, ok |-> ok]),
              !.pc = "done", !.result = "Ok", !.error = printed]

NewRun(flow, cfg, plan, requested, message, run, w) ==
    [pc |-> FirstStep(flow, cfg), flow |-> flow, run |-> run, plan |-> plan,
     requested |-> requested, cfg |-> cfg, message |-> message, steps |-> <<>>,
     result |-> "none", error |-> "", override |-> FALSE, world0 |-> w,
     offered |-> FALSE, handled |-> "none", recovery |-> "none"]

IdleRelease(w) ==
    [pc |-> "idle", flow |-> "none", run |-> 0, plan |-> NoPlan,
     requested |-> "", cfg |-> DefaultConfig, message |-> "", steps |-> <<>>,
     result |-> "none", error |-> "", override |-> FALSE, world0 |-> w,
     offered |-> FALSE, handled |-> "none", recovery |-> "none"]

Worlds ==
    {w \in [inRepo : BOOLEAN, remote : BOOLEAN, dirty : BOOLEAN,
            staged : BOOLEAN, branch : Branches,
            cargo_version : {InitialVersion}, lock_refreshed : {FALSE},
            commits : {0}, tagsLocal : SUBSET InitialTags,
            tagsRemote : SUBSET InitialTags] : w.staged => w.dirty}

ReleaseInit ==
    /\ world \in Worlds
    /\ rel = IdleRelease(world)

GuardError(step) ==
    CASE step = "repo" -> "Not a git repository (or git is not installed)."
      [] step = "remote" -> "No 'origin' remote found. Add it first."
      [] step = "clean" ->
            "Working tree is not clean. Commit or stash your changes before releasing."
      [] step = "branch" -> "Refusing to release: current branch is not the expected one."

\* ensure_git_repo, ensure_remote_exists, ensure_clean_working_tree and the
\* branch comparison, each on the repository as it is.
GuardHolds(step, w, cfg) ==
    CASE step = "repo" -> w.inRepo
      [] step = "remote" -> w.remote
      [] step = "clean" -> ~w.dirty
      [] step = "branch" -> w.branch = cfg.expected_branch

\* Variant of the existence checks that never finds the tag.
TagExistsNever(tags, tag) == FALSE

\* tag_exists_local / tag_exists_remote: is the tag listed.
TagExists(tags, tag) == tag \in tags

LibConfigs ==
    {ReleaseConfig(f, c, t, e) : f \in BOOLEAN, c \in BOOLEAN, t \in BOOLEAN,
                                 e \in {"None", "master"}}

LibPlans == {ReleasePlan(InitialVersion, v) : v \in Versions \ {InitialVersion}}

\* A run has ended and its caller has not yet dealt with the result: the CLI
\* menu with an Err in hand, handle_confirm with either result.
Unhandled ==
    /\ rel.pc = "done"
    /\ rel.handled = "none"
    /\ \/ rel.flow = "cli" /\ rel.result = "Err"
       \/ rel.flow = "tui"

CanBegin == rel.pc \in {"idle", "done"} /\ rel.run < MaxRuns /\ ~Unhandled

\* run_tag_release called with a plan and a configuration.
BeginLib(plan, cfg) ==
    /\ CanBegin
    /\ rel' = NewRun("lib", cfg, plan, plan.new_version, "chore(release)", rel.run + 1, world)
    /\ UNCHANGED <<world, current, chan, workers, app, uiPc, nCalls, emitted, applied, calls, lockAtSend, term, keys, calc>>

\* handle_confirm(ReleaseTrigger): perform_release(pending_release_version).
BeginTui(version) ==
    /\ CanBegin
    /\ rel' = NewRun("tui", DefaultConfig, NoPlan, version, "", rel.run + 1, world)
    /\ UNCHANGED <<world, current, chan, workers, app, uiPc, nCalls, emitted, applied, calls, lockAtSend, term, keys, calc>>

\* The CLI menu's Release entry: run_release_flow.
BeginCli ==
    /\ CanBegin
    /\ rel' = NewRun("cli", DefaultConfig, NoPlan, "", "", rel.run + 1, world)
    /\ UNCHANGED <<world, current, chan, workers, app, uiPc, nCalls, emitted, applied, calls, lockAtSend, term, keys, calc>>

\* plan_custom at the head of perform_release.
PlanCustom ==
    /\ rel.pc = "plan"
    /\ LET new == Trim(rel.requested)
           old == world.cargo_version
       IN  rel' = IF new = "" THEN Fail(rel, "New version cannot be empty.")
                  ELSE IF old = new
                  THEN Fail(rel, "New version matches current version: " \o new)
                  ELSE Proceed([rel EXCEPT !.plan = ReleasePlan(old, new)], TRUE)
    /\ UNCHANGED <<world, current, chan, workers, app, uiPc, nCalls, emitted, applied, calls, lockAtSend, term, keys, calc>>

\* One guardrail check. The library bails on the first that fails; the CLI
\* prints the error and returns, and on a foreign branch asks the operator.
Guardrail ==
    /\ rel.pc \in {"repo", "remote", "clean", "branch"}
    /\ IF rel.flow \in {"lib", "tui"}
       THEN rel' = IF GuardHolds(rel.pc, world, rel.cfg)
                   THEN Proceed(rel, TRUE)
                   ELSE Fail(rel, GuardError(rel.pc))
       ELSE IF rel.pc # "branch"
       THEN rel' = IF GuardHolds(rel.pc, world, rel.cfg)
                   THEN Proceed(rel, TRUE)
                   ELSE Leave(rel, FALSE, GuardError(rel.pc))
       ELSE IF world.branch = "master"
       THEN rel' = Proceed(rel, TRUE)
       ELSE \E choice \in {"Continue", "Back"} :
               rel' = IF choice = "Continue"
                      THEN Proceed([rel EXCEPT !.override = TRUE], TRUE)
                      ELSE Leave(rel, FALSE, "")
    /\ UNCHANGED <<world, current, chan, workers, app, uiPc, nCalls, emitted, applied, calls, lockAtSend, term, keys, calc>>

\* One preflight command: cargo fmt --check, cargo clippy, cargo test.
Preflight ==
    /\ rel.pc \in {"fmt", "clippy", "test"}
    /\ \E pass \in BOOLEAN :
          rel' = IF pass THEN Proceed(rel, TRUE)
                 ELSE Fail(rel, "Release preflight failed: cargo " \o rel.pc)
    /\ UNCHANGED <<world, current, chan, workers, app, uiPc, nCalls, emitted, applied, calls, lockAtSend, term, keys, calc>>

\* The CLI's prompts: the bump selection and the two confirmations.
Prompt ==
    /\ rel.pc \in {"select", "confirm", "final_confirm"}
    /\ IF rel.pc = "select"
       THEN \E choice \in Versions \cup {"Back"} :
               rel' = IF choice = "Back" THEN Leave(rel, TRUE, "")
                      ELSE IF choice = world.cargo_version
                      THEN Leave(rel, FALSE, "New version matches current version. Nothing to do.")
                      ELSE Proceed([rel EXCEPT !.plan = ReleasePlan(world.cargo_version, choice),
                                               !.requested = choice], TRUE)
       ELSE \E yes \in BOOLEAN :
               rel' = IF yes THEN Proceed(rel, TRUE) ELSE Leave(rel, TRUE, "")
    /\ UNCHANGED <<world, current, chan, workers, app, uiPc, nCalls, emitted, applied, calls, lockAtSend, term, keys, calc>>

\* update_cargo_version_in_toml: rewrite the version line, or fail when the
\* old version is not there or the file cannot be written.
VersionBump ==
    /\ rel.pc = "bump"
    /\ \E written \in BOOLEAN :
          IF world.cargo_version = rel.plan.old_version /\ written
          THEN /\ world' = [world EXCEPT !.cargo_version = rel.plan.new_version,
                                          !.dirty = TRUE]
               /\ rel' = Proceed(rel, TRUE)
          ELSE /\ world' = world
               /\ rel' = Fail(rel, "Failed to update version in Cargo.toml")
    /\ UNCHANGED <<current, chan, workers, app, uiPc, nCalls, emitted, applied, calls, lockAtSend, term, keys, calc>>

\* cargo generate-lockfile, best effort: its result is dropped.
Lockfile ==
    /\ rel.pc = "lockfile"
    /\ \E refreshed \in BOOLEAN :
          world' = [world EXCEPT !.lock_refreshed = @ \/ refreshed,
                                 !.dirty = @ \/ refreshed]
    /\ rel' = Proceed(rel, TRUE)
    /\ UNCHANGED <<current, chan, workers, app, uiPc, nCalls, emitted, applied, calls, lockAtSend, term, keys, calc>>

\* git add -A.
StageAll ==
    /\ rel.pc = "stage"
    /\ \E ok \in BOOLEAN :
          IF ok
          THEN /\ world' = [world EXCEPT !.staged = world.dirty]
               /\ rel' = Proceed(rel, TRUE)
          ELSE /\ world' = world
               /\ rel' = Fail(rel, "git add -A failed")
    /\ UNCHANGED <<current, chan, workers, app, uiPc, nCalls, emitted, applied, calls, lockAtSend, term, keys, calc>>

\* The release commit message: git::get_diff(Staged), then the generator. ran
\* is whether the git commands of get_diff ran, genOk whether the generator
\* returned a message. perform_release falls back to the generic message on
\* either failure; run_release_flow propagates get_diff's error with `?` and
\* falls back on the generator's only.
GenerateMessage ==
    /\ rel.pc = "genmsg"
    /\ \E ran \in BOOLEAN : \E genOk \in BOOLEAN :
          LET diffOk == ran /\ world.inRepo /\ world.staged
          IN  IF rel.flow = "cli" /\ ~diffOk
              THEN rel' = Fail(rel, IF ran
                                    THEN "No staged changes found. Did you forget to 'git add'?"
                                    ELSE "Failed to read the staged diff")
              ELSE rel' = Proceed(
                     [rel EXCEPT !.message =
                         IF diffOk /\ genOk THEN "generated message"
                         ELSE "chore(release): " \o TagOf(rel.plan.new_version)],
                     diffOk /\ genOk)
    /\ UNCHANGED <<world, current, chan, workers, app, uiPc, nCalls, emitted, applied, calls, lockAtSend, term, keys, calc>>

\* git commit -F <message file>.
Commit ==
    /\ rel.pc = "commit"
    /\ \E ok \in BOOLEAN :
          IF ok /\ world.staged
          THEN /\ world' = [world EXCEPT !.commits = @ + 1, !.staged = FALSE,
                                          !.dirty = FALSE, !.lock_refreshed = FALSE]
               /\ rel' = Proceed(rel, TRUE)
          ELSE /\ world' = world
               /\ rel' = Fail(rel, "git commit failed")
    /\ UNCHANGED <<current, chan, workers, app, uiPc, nCalls, emitted, applied, calls, lockAtSend, term, keys, calc>>

\* The two collision checks before the tag is created.
CollisionCheck ==
    /\ rel.pc \in {"tag_local", "tag_remote"}
    /\ \E ran \in BOOLEAN :
          rel' = IF ~ran
                 THEN Fail(rel, "git command failed")
                 ELSE IF rel.pc = "tag_local"
                 THEN IF TagExists(world.tagsLocal, rel.plan.tag)
                      THEN Fail(rel, "Tag already exists locally: " \o rel.plan.tag)
                      ELSE Proceed(rel, TRUE)
                 ELSE IF TagExists(world.tagsRemote, rel.plan.tag)
                      THEN Fail(rel, "Tag already exists on remote origin: " \o rel.plan.tag)
                      ELSE Proceed(rel, TRUE)
    /\ UNCHANGED <<world, current, chan, workers, app, uiPc, nCalls, emitted, applied, calls, lockAtSend, term, keys, calc>>

\* git tag -a <tag> -m "Release <tag>".
CreateTag ==
    /\ rel.pc = "create_tag"
    /\ \E ok \in BOOLEAN :
          IF ok /\ rel.plan.tag \notin world.tagsLocal
          THEN /\ world' = [world EXCEPT !.tagsLocal = @ \cup {rel.plan.tag}]
               /\ rel' = Proceed(rel, TRUE)
          ELSE /\ world' = world
               /\ rel' = Fail(rel, "git tag -a " \o rel.plan.tag \o " failed")
    /\ UNCHANGED <<current, chan, workers, app, uiPc, nCalls, emitted, applied, calls, lockAtSend, term, keys, calc>>

\* git push origin <tag>.
PushTag ==
    /\ rel.pc = "push_tag"
    /\ \E ok \in BOOLEAN :
          IF ok
          THEN /\ world' = [world EXCEPT !.tagsRemote = @ \cup {rel.plan.tag}]
               /\ rel' = Proceed(rel, TRUE)
          ELSE /\ world' = world
               /\ rel' = Fail(rel, "git push origin " \o rel.plan.tag \o " failed")
    /\ UNCHANGED <<current, chan, workers, app, uiPc, nCalls, emitted, applied, calls, lockAtSend, term, keys, calc>>

RecoveryChoices == {"RunCargoFmt", "RevertReleaseChanges", "Back"}

\* main: run_release_flow returned Err; the error is printed and
\* handle_release_failure_recovery shows its menu. cargo fmt may rewrite
\* sources; the revert is `git restore Cargo.toml Cargo.lock` (or checkout --),
\* which copies the two files from the index to the working tree.
\* rel.recovery is what the chosen action returned.
Recover(choice) ==
    /\ Unhandled
    /\ rel.flow = "cli"
    /\ \E ok \in BOOLEAN : \E changed \in BOOLEAN :
          /\ rel' = [rel EXCEPT !.offered = TRUE, !.handled = choice,
                                !.recovery = IF ok \/ choice = "Back" THEN "Ok" ELSE "Err"]
          /\ world' =
            CASE choice = "RunCargoFmt" ->
                    [world EXCEPT !.dirty = @ \/ (ok /\ changed)]
              [] choice = "RevertReleaseChanges" ->
                    IF ok /\ ~world.staged /\ world.commits = rel.world0.commits
                    THEN [world EXCEPT !.cargo_version = rel.world0.cargo_version,
                                       !.lock_refreshed = FALSE,
                                       !.dirty = rel.world0.dirty]
                    ELSE world
              [] choice = "Back" -> world
    /\ UNCHANGED <<current, chan, workers, app, uiPc, nCalls, emitted, applied, calls, lockAtSend, term, keys, calc>>

\* The match on the result of perform_release in handle_confirm (859-882).
Reported(a, r) ==
    IF r.result = "Ok"
    THEN Log(SetStatus(a, "Success",
                       "Release initiated: pushed tag " \o TagOf(r.requested)),
             "Release initiated: " \o TagOf(r.requested))
    ELSE Log(SetStatus(a, "Error", r.error), "Release failed: " \o r.error)

\* handle_confirm(ReleaseTrigger) after perform_release returned: a Success
\* or an Error status and one log line; nothing else is shown or done.
ReportRelease ==
    /\ Unhandled
    /\ rel.flow = "tui"
    /\ rel' = [rel EXCEPT !.handled = "status"]
    /\ app' = Reported(app, rel)
    /\ UNCHANGED <<world, current, chan, workers, uiPc, nCalls, emitted, applied, calls, lockAtSend, term, keys, calc>>

ReleaseNext ==
    \/ \E plan \in LibPlans : \E cfg \in LibConfigs : BeginLib(plan, cfg)
    \/ \E version \in Versions : BeginTui(version)
    \/ BeginCli
    \/ PlanCustom
    \/ Guardrail
    \/ Preflight
    \/ Prompt
    \/ VersionBump
    \/ Lockfile
    \/ StageAll
    \/ GenerateMessage
    \/ Commit
    \/ CollisionCheck
    \/ CreateTag
    \/ PushTag
    \/ \E choice \in RecoveryChoices : Recover(choice)
    \/ ReportRelease

(***************************************************************************)
(* Version texts and the version file (src/release.rs, src/main.rs).       *)
(*                                                                         *)
(* A version is the text the code handles, character by character; a       *)
(* number is kept as its decimal digits so that a component may be as      *)
(* large as a u64. A version file is the sequence of its lines.            *)
(***************************************************************************)
Digits == "0123456789"

IsDigit(c) == \E i \in 1..Len(Digits) : SubSeq(Digits, i, i) = c

AllDigits(s) == \A i \in 1..Len(s) : IsDigit(SubSeq(s, i, i))

DigitValue(c) == (CHOOSE i \in 1..Len(Digits) : SubSeq(Digits, i, i) = c) - 1

DigitOf(n) == SubSeq(Digits, n + 1, n + 1)

\* The decimal digits of a number without its leading zeros.
RECURSIVE StripZeros(_)
StripZeros(s) ==
    IF Len(s) > 1 /\ StartsWith(s, "0") THEN StripZeros(SubSeq(s, 2, Len(s))) ELSE s

\* a <= b for two texts of digits of the same length.
RECURSIVE DigitsLeq(_, _)
DigitsLeq(a, b) ==
    IF a = "" THEN TRUE
    ELSE LET x == DigitValue(SubSeq(a, 1, 1))
             y == DigitValue(SubSeq(b, 1, 1))
         IN  IF x # y THEN x < y
             ELSE DigitsLeq(SubSeq(a, 2, Len(a)), SubSeq(b, 2, Len(b)))

\* a <= b for two numbers written without leading zeros.
NumLeq(a, b) == Len(a) < Len(b) \/ (Len(a) = Len(b) /\ DigitsLeq(a, b))

\* u64::MAX.
U64Max == "18446744073709551615"

\* The number after n, on its decimal digits.
RECURSIVE NextNumber(_)
NextNumber(n) ==
    IF n = "" THEN "1"
    ELSE LET front == SubSeq(n, 1, Len(n) - 1)
             last == DigitValue(SubSeq(n, Len(n), Len(n)))
         IN  IF last = 9 THEN NextNumber(front) \o "0" ELSE front \o DigitOf(last + 1)

ParseOk(n) == [ok |-> TRUE, value |-> n]

ParseErr == [ok |-> FALSE, value |-> "0"]

\* str::parse::<u64>: an optional '+', then at least one digit, at most u64::MAX.
ParseU64(p) ==
    LET body == IF StartsWith(p, "+") THEN SubSeq(p, 2, Len(p)) ELSE p
    IN  IF body = "" \/ ~AllDigits(body) THEN ParseErr
        ELSE IF NumLeq(StripZeros(body), U64Max) THEN ParseOk(StripZeros(body))
        ELSE ParseErr

\* `n += 1` on a u64: at u64::MAX it panics where overflow checks are compiled
\* in (the dev profile) and wraps to 0 where they are not (the release profile).
AddOne(n, overflow_checks) ==
    IF n # U64Max THEN [panic |-> FALSE, value |-> NextNumber(n)]
    ELSE IF overflow_checks THEN [panic |-> TRUE, value |-> n]
    ELSE [panic |-> FALSE, value |-> "0"]

\* format!("{}.{}.{}", major, minor, patch).
FormatVersion(major, minor, patch) == major \o "." \o minor \o "." \o patch

Ok(value) == [ok |-> TRUE, panic |-> FALSE, value |-> value, error |-> ""]

Err(error) == [ok |-> FALSE, panic |-> FALSE, value |-> "", error |-> error]

Panic == [ok |-> FALSE, panic |-> TRUE, value |-> "", error |-> "attempt to add with overflow"]

BumpKinds == {"Patch", "Minor", "Major"}

\* validate_semver_3: three parts, none empty, each a u64.
ValidateSemver3(v) ==
    LET parts == SplitDots(v)
    IN  IF Len(parts) # 3 THEN Err("expected x.y.z, got " \o v)
        ELSE IF \E i \in 1..3 : parts[i] = ""
        THEN Err("version part is empty in " \o v)
        ELSE IF \E i \in 1..3 : ~ParseU64(parts[i]).ok
        THEN Err("version part is not numeric in " \o v)
        ELSE Ok(v)

\* The match on the bump kind of both bump_semver functions.
Bumped(major, minor, patch, bump, overflow_checks) ==
    LET which == CASE bump = "Patch" -> patch
                   [] bump = "Minor" -> minor
                   [] bump = "Major" -> major
        next == AddOne(which, overflow_checks)
    IN  IF next.panic THEN Panic
        ELSE CASE bump = "Patch" -> Ok(FormatVersion(major, minor, next.value))
               [] bump = "Minor" -> Ok(FormatVersion(major, next.value, "0"))
               [] bump = "Major" -> Ok(FormatVersion(next.value, "0", "0"))

\* bump_semver of src/release.rs.
BumpSemver(version, bump, overflow_checks) ==
    IF ~ValidateSemver3(version).ok THEN ValidateSemver3(version)
    ELSE LET parts == SplitDots(version)
         IN  Bumped(ParseU64(parts[1]).value, ParseU64(parts[2]).value,
                    ParseU64(parts[3]).value, bump, overflow_checks)

\* bump_semver of src/main.rs.
CliBumpSemver(version, bump, overflow_checks) ==
    LET parts == SplitDots(version)
    IN  IF Len(parts) # 3
        THEN Err("Current version is not semver (expected x.y.z): " \o version)
        ELSE IF ~ParseU64(parts[1]).ok THEN Err("Invalid major version")
        ELSE IF ~ParseU64(parts[2]).ok THEN Err("Invalid minor version")
        ELSE IF ~ParseU64(parts[3]).ok THEN Err("Invalid patch version")
        ELSE IF bump \notin BumpKinds THEN Err("Invalid bump kind for bump_semver")
        ELSE Bumped(ParseU64(parts[1]).value, ParseU64(parts[2]).value,
                    ParseU64(parts[3]).value, bump, overflow_checks)

Quote == "\""

Quoted(s) == Quote \o s \o Quote

\* `[...]`: a table header line.
IsHeader(trimmed) == StartsWith(trimmed, "[") /\ EndsWith(trimmed, "]")

\* The text between the first two quotes of a line, if it has two.
FirstQuoted(trimmed) ==
    LET start == Find(trimmed, Quote)
        rest == SubSeq(trimmed, start + 1, Len(trimmed))
        end == Find(rest, Quote)
    IN  IF start = 0 \/ end = 0 THEN [found |-> FALSE, value |-> ""]
        ELSE [found |-> TRUE, value |-> SubSeq(rest, 1, end - 1)]

IsVersionLine(trimmed) ==
    /\ StartsWith(trimmed, "version")
    /\ Contains(trimmed, "=")
    /\ Contains(trimmed, Quote)

\* str::lines: the texts of the lines, without their line endings.
Lines(file) == [i \in DOMAIN file |-> file[i].text]

\* The file as the update functions write it: every line ended by '\n'.
Written(texts) == [i \in DOMAIN texts |-> [text |-> texts[i], eol |-> "lf"]]

RECURSIVE ReadFrom(_, _, _)
ReadFrom(lines, i, in_package) ==
    IF i > Len(lines) THEN Err("Failed to locate [package] version in Cargo.toml")
    ELSE LET trimmed == Trim(lines[i])
         IN  IF IsHeader(trimmed) THEN ReadFrom(lines, i + 1, trimmed = "[package]")
             ELSE IF in_package /\ IsVersionLine(trimmed) /\ FirstQuoted(trimmed).found
             THEN Ok(FirstQuoted(trimmed).value)
             ELSE ReadFrom(lines, i + 1, in_package)

\* read_cargo_package_version of src/release.rs.
ReadCargoPackageVersion(file) == ReadFrom(Lines(file), 1, FALSE)

RECURSIVE CliReadFrom(_, _)
CliReadFrom(lines, i) ==
    IF i > Len(lines) THEN Err("Failed to locate package version in Cargo.toml")
    ELSE LET trimmed == Trim(lines[i])
         IN  IF IsVersionLine(trimmed) /\ FirstQuoted(trimmed).found
             THEN Ok(FirstQuoted(trimmed).value)
             ELSE CliReadFrom(lines, i + 1)

\* read_cargo_version of src/main.rs.
ReadCargoVersion(file) == CliReadFrom(Lines(file), 1)

\* The loop of update_cargo_version_in_toml (src/release.rs) from line i on.
RECURSIVE UpdateFrom(_, _, _, _, _, _)
UpdateFrom(lines, i, in_package, replaced, old, new) ==
    IF i > Len(lines) THEN [out |-> <<>>, replaced |-> replaced]
    ELSE LET line == lines[i]
             trimmed == Trim(line)
         IN  IF IsHeader(trimmed)
             THEN LET r == UpdateFrom(lines, i + 1, trimmed = "[package]", replaced, old, new)
                  IN  [out |-> <<line>> \o r.out, replaced |-> r.replaced]
             ELSE IF /\ in_package
                     /\ ~replaced
                     /\ StartsWith(trimmed, "version")
                     /\ Contains(line, Quoted(old))
             THEN LET r == UpdateFrom(lines, i + 1, in_package, TRUE, old, new)
                  IN  [out |-> <<Replace(line, Quoted(old), Quoted(new))>> \o r.out,
                       replaced |-> r.replaced]
             ELSE LET r == UpdateFrom(lines, i + 1, in_package, replaced, old, new)
                  IN  [out |-> <<line>> \o r.out, replaced |-> r.replaced]

\* The loop of update_cargo_version_in_toml (src/main.rs) from line i on.
RECURSIVE CliUpdateFrom(_, _, _, _, _)
CliUpdateFrom(lines, i, replaced, old, new) ==
    IF i > Len(lines) THEN [out |-> <<>>, replaced |-> replaced]
    ELSE LET line == lines[i]
         IN  IF /\ ~replaced
                /\ StartsWith(TrimStart(line), "version")
                /\ Contains(line, Quoted(old))
             THEN LET r == CliUpdateFrom(lines, i + 1, TRUE, old, new)
                  IN  [out |-> <<Replace(line, Quoted(old), Quoted(new))>> \o r.out,
                       replaced |-> r.replaced]
             ELSE LET r == CliUpdateFrom(lines, i + 1, replaced, old, new)
                  IN  [out |-> <<line>> \o r.out, replaced |-> r.replaced]

\* What an update leaves: the file and the result returned.
Updated(file, r, written) ==
    IF ~r.replaced
    THEN [ok |-> FALSE, file |-> file, error |-> "Failed to update version in Cargo.toml"]
    ELSE IF ~written
    THEN [ok |-> FALSE, file |-> file, error |-> "Failed to write Cargo.toml"]
    ELSE [ok |-> TRUE, file |-> Written(r.out), error |-> ""]

\* update_cargo_version_in_toml of src/main.rs; written is whether fs::write
\* succeeded.
CliUpdateCargoVersionInToml(file, old, new, written) ==
    Updated(file, CliUpdateFrom(Lines(file), 1, FALSE, old, new), written)

\* Variant of the update that rewrites the first version line of any table.
UpdateCargoVersionAnyTable(file, old, new, written) ==
    CliUpdateCargoVersionInToml(file, old, new, written)

\* update_cargo_version_in_toml of src/release.rs.
UpdateCargoVersionInToml(file, old, new, written) ==
    Updated(file, UpdateFrom(Lines(file), 1, FALSE, FALSE, old, new), written)

\* What a planning function returns: a plan, an error, or (the CLI) nothing.
Planned(plan) ==
    [ok |-> TRUE, panic |-> FALSE, left |-> FALSE, plan |-> plan, error |-> ""]

NotPlanned(r) ==
    [ok |-> FALSE, panic |-> r.panic, left |-> FALSE, plan |-> NoPlan, error |-> r.error]

\* The CLI's `return Ok(())` before anything is planned.
LeftFlow(printed) ==
    [ok |-> FALSE, panic |-> FALSE, left |-> TRUE, plan |-> NoPlan, error |-> printed]

\* plan_bump.
PlanBumpOn(file, bump, overflow_checks) ==
    LET old == ReadCargoPackageVersion(file)
        new == BumpSemver(old.value, bump, overflow_checks)
    IN  IF ~old.ok THEN NotPlanned(old)
        ELSE IF ~new.ok THEN NotPlanned(new)
        ELSE Planned(ReleasePlan(old.value, new.value))

\* plan_custom.
PlanCustomOn(file, requested) ==
    LET new_version == Trim(requested)
        old == ReadCargoPackageVersion(file)
    IN  IF new_version = "" THEN NotPlanned(Err("New version cannot be empty."))
        ELSE IF ~old.ok THEN NotPlanned(old)
        ELSE IF ~ValidateSemver3(new_version).ok
        THEN NotPlanned(Err("Invalid custom version"))
        ELSE IF old.value = new_version
        THEN NotPlanned(Err("New version matches current version: " \o new_version))
        ELSE Planned(ReleasePlan(old.value, new_version))

\* run_release_flow: the bump selection up to the pair (old_version, new_version).
\* The prompt's default_input stands in for an empty entry.
SelectVersion(file, choice, input_version, overflow_checks) ==
    LET cur == ReadCargoVersion(file)
        next == CliBumpSemver(cur.value, choice, overflow_checks)
    IN  IF choice = "Back" THEN LeftFlow("")
        ELSE IF ~cur.ok THEN NotPlanned(cur)
        ELSE IF choice # "Custom" /\ ~next.ok THEN NotPlanned(next)
        ELSE LET entered == IF input_version = "" THEN cur.value ELSE input_version
                 new_version == IF choice = "Custom" THEN entered ELSE next.value
             IN  IF cur.value = new_version
                 THEN LeftFlow("New version matches current version. Nothing to do.")
                 ELSE Planned(ReleasePlan(cur.value, new_version))

\* The texts the version functions are applied to.
VersionTexts ==
    {"1.2.3", "1.2.4", "0.9.9", "1.2", "1.2.x", "1.2.3.4", "", " ", " 1.2.4 ",
     "01.2.3", "+1.2.3", "1..3", "1.2.18446744073709551615",
     "1.18446744073709551615.3", "18446744073709551615.2.3",
     "1.2.18446744073709551616"}

FileVersions == {"1.2.3", "0.9.9"}

Layouts == {"standard", "dependency_first", "annotated", "inherited"}

FileOf(texts, eol) == [i \in DOMAIN texts |-> [text |-> texts[i], eol |-> eol]]

\* Cargo.toml files holding version v.
Manifest(layout, v) ==
    CASE layout = "standard" ->
            FileOf(<<"[package]", "name = " \o Quoted("git-wiz"),
                     "version = " \o Quoted(v), "edition = " \o Quoted("2021"), "",
                     "[dependencies]", "anyhow = " \o Quoted("1.0")>>, "lf")
      [] layout = "dependency_first" ->
            FileOf(<<"[dependencies.clap]", "version = " \o Quoted(v), "",
                     "[package]", "name = " \o Quoted("git-wiz"),
                     "version = " \o Quoted(v)>>, "lf")
      [] layout = "annotated" ->
            FileOf(<<"# release " \o Quoted(v), "  [package]  ",
                     "  version   =  " \o Quoted(v) \o "  # after " \o Quoted("0.0.1"),
                     "name = " \o Quoted("git-wiz"), "[dependencies.serde]",
                     "version = " \o Quoted(v)>>, "crlf")
      [] layout = "inherited" ->
            FileOf(<<"[workspace.package]", "version = " \o Quoted(v), "[package]",
                     "name = " \o Quoted("git-wiz"), "version.workspace = true">>, "lf")

Manifests == {Manifest(layout, v) : layout \in Layouts, v \in FileVersions}

NoResult == [ok |-> FALSE, panic |-> FALSE, value |-> "", error |-> "(not called)"]

\* The inputs of one application: the file, the text and the build profile.
CalcInput(file, text, overflow_checks) ==
    [fn |-> "input", file0 |-> file, file |-> file, text |-> text,
     overflow_checks |-> overflow_checks, bump |-> "none", plan |-> NoPlan,
     out |-> NoResult]

VersionInit ==
    \E file \in Manifests : \E text \in VersionTexts : \E overflow_checks \in BOOLEAN :
        calc = CalcInput(file, text, overflow_checks)

Applied(fn, bump, out) == [calc EXCEPT !.fn = fn, !.bump = bump, !.out = out]

\* bump_semver (src/release.rs) applied to the text.
CallBumpSemver(bump) ==
    /\ calc.fn = "input"
    /\ calc' = Applied("bump_semver", bump,
                       BumpSemver(calc.text, bump, calc.overflow_checks))
    /\ UNCHANGED <<current, chan, workers, app, uiPc, nCalls, emitted, applied, calls, rel, world, lockAtSend, term, keys>>

\* bump_semver (src/main.rs) applied to the text.
CallCliBumpSemver(bump) ==
    /\ calc.fn = "input"
    /\ calc' = Applied("cli_bump_semver", bump,
                       CliBumpSemver(calc.text, bump, calc.overflow_checks))
    /\ UNCHANGED <<current, chan, workers, app, uiPc, nCalls, emitted, applied, calls, rel, world, lockAtSend, term, keys>>

\* plan_bump on the file.
CallPlanBump(bump) ==
    /\ calc.fn = "input"
    /\ LET r == PlanBumpOn(calc.file, bump, calc.overflow_checks)
       IN  calc' = [Applied("plan_bump", bump, r) EXCEPT !.plan = r.plan]
    /\ UNCHANGED <<current, chan, workers, app, uiPc, nCalls, emitted, applied, calls, rel, world, lockAtSend, term, keys>>

\* plan_custom on the file, the text being the requested version.
CallPlanCustom ==
    /\ calc.fn = "input"
    /\ LET r == PlanCustomOn(calc.file, calc.text)
       IN  calc' = [Applied("plan_custom", "Custom", r) EXCEPT !.plan = r.plan]
    /\ UNCHANGED <<current, chan, workers, app, uiPc, nCalls, emitted, applied, calls, rel, world, lockAtSend, term, keys>>

\* run_release_flow's bump selection, the text being what the operator enters
\* when the choice is Custom.
CallSelectVersion(choice) ==
    /\ calc.fn = "input"
    /\ LET r == SelectVersion(calc.file, choice, calc.text, calc.overflow_checks)
       IN  calc' = [Applied("select_version", choice, r) EXCEPT !.plan = r.plan]
    /\ UNCHANGED <<current, chan, workers, app, uiPc, nCalls, emitted, applied, calls, rel, world, lockAtSend, term, keys>>

\* apply_version_bump with the plan just made.
CallApplyVersionBump(written) ==
    /\ calc.fn \in {"plan_bump", "plan_custom"}
    /\ calc.out.ok
    /\ LET r == UpdateCargoVersionInToml(calc.file, calc.plan.old_version,
                                         calc.plan.new_version, written)
       IN  calc' = [Applied("apply_version_bump", calc.bump, r) EXCEPT !.file = r.file]
    /\ UNCHANGED <<current, chan, workers, app, uiPc, nCalls, emitted, applied, calls, rel, world, lockAtSend, term, keys>>

\* run_release_flow after "Proceed": update_cargo_version_in_toml.
CallCliUpdate(written) ==
    /\ calc.fn = "select_version"
    /\ calc.out.ok
    /\ LET r == CliUpdateCargoVersionInToml(calc.file, calc.plan.old_version,
                                            calc.plan.new_version, written)
       IN  calc' = [Applied("cli_update", calc.bump, r) EXCEPT !.file = r.file]
    /\ UNCHANGED <<current, chan, workers, app, uiPc, nCalls, emitted, applied, calls, rel, world, lockAtSend, term, keys>>

\* read_cargo_package_version on the file the bump was applied to.
CallReadBack ==
    /\ calc.fn = "apply_version_bump"
    /\ calc.out.ok
    /\ calc' = Applied("read_back", calc.bump, ReadCargoPackageVersion(calc.file))
    /\ UNCHANGED <<current, chan, workers, app, uiPc, nCalls, emitted, applied, calls, rel, world, lockAtSend, term, keys>>

VersionNext ==
    \/ \E bump \in BumpKinds : CallBumpSemver(bump)
    \/ \E bump \in BumpKinds \cup {"Custom"} : CallCliBumpSemver(bump)
    \/ \E bump \in BumpKinds : CallPlanBump(bump)
    \/ CallPlanCustom
    \/ \E choice \in BumpKinds \cup {"Custom", "Back"} : CallSelectVersion(choice)
    \/ \E written \in BOOLEAN : CallApplyVersionBump(written)
    \/ \E written \in BOOLEAN : CallCliUpdate(written)
    \/ CallReadBack

(***************************************************************************)
(* The terminal (src/tui/mod.rs, src/tui/runtime.rs).                      *)
(***************************************************************************)
\* run_tui: enable_raw_mode and EnterAlternateScreen before the loop.
(***************************************************************************)
(* The App's navigation state and its modal (src/tui/app.rs 222-599).      *)
(***************************************************************************)
TabAll == <<"Generate", "Stage", "Diff", "Push", "Release", "Config">>

\* App::actions_for_tab: the catalog of each tab, in display order.
ActionsFor(tab) ==
    CASE tab = "Generate" -> <<"GenerateFromStaged", "Commit", "ClearMessage">>
      [] tab = "Stage" -> <<"StagePatch", "StageAll", "UnstagePatch", "UnstageAll">>
      [] tab = "Diff" -> <<"ViewStaged", "ViewUnstaged", "ViewBoth">>
      [] tab = "Push" -> <<"PushBranch", "PushSpecificTag", "PushAllTags">>
      [] tab = "Release" ->
            <<"ReleasePatch", "ReleaseMinor", "ReleaseMajor", "ReleaseCustom">>
      [] tab = "Config" -> <<"RunSetupWizard", "ReloadConfig", "ClearConfig">>

FocusAll == <<"TabBar", "CommitEditor", "LeftPane", "RightPane">>

ClampActionIndex(a) ==
    LET len == Len(ActionsFor(a.active_tab))
    IN  IF len = 0 THEN [a EXCEPT !.action_index = 0]
        ELSE IF a.action_index >= len THEN [a EXCEPT !.action_index = len - 1]
        ELSE a

ActionUp(a) ==
    LET c == ClampActionIndex(a)
    IN  IF c.action_index > 0 THEN [c EXCEPT !.action_index = @ - 1] ELSE c

ActionDown(a) ==
    LET c == ClampActionIndex(a)
        len == Len(ActionsFor(c.active_tab))
    IN  IF len = 0 THEN c
        ELSE IF c.action_index + 1 < len THEN [c EXCEPT !.action_index = @ + 1]
        ELSE c

\* selected_action: actions_for_tab(..).get(action_index), None past the end.
NoAction == "(none)"

SelectedAction(a) ==
    IF a.action_index + 1 \in DOMAIN ActionsFor(a.active_tab)
    THEN ActionsFor(a.active_tab)[a.action_index + 1]
    ELSE NoAction

\* Position of a tab in Tab::ALL, counted from 0 (0 when it is not found).
TabPosition(tab) ==
    IF \E i \in DOMAIN TabAll : TabAll[i] = tab
    THEN (CHOOSE i \in DOMAIN TabAll : TabAll[i] = tab) - 1
    ELSE 0

\* Variant of next_tab that keeps the selection of the tab it leaves.
NextTabKeepsIndex(a) ==
    LET t == TabAll[((TabPosition(a.active_tab) + 1) % Len(TabAll)) + 1]
    IN  SetStatus([a EXCEPT !.active_tab = t], "Info", "Tab: " \o t)

NextTab(a) ==
    LET t == TabAll[((TabPosition(a.active_tab) + 1) % Len(TabAll)) + 1]
    IN  SetStatus([a EXCEPT !.active_tab = t, !.action_index = 0], "Info", "Tab: " \o t)

PrevTab(a) ==
    LET idx == TabPosition(a.active_tab)
        prev == IF idx = 0 THEN Len(TabAll) - 1 ELSE idx - 1
        t == TabAll[prev + 1]
    IN  SetStatus([a EXCEPT !.active_tab = t, !.action_index = 0], "Info", "Tab: " \o t)

FocusNext(a) ==
    LET f == CASE a.focus = "TabBar" -> "LeftPane"
               [] a.focus = "LeftPane" -> "CommitEditor"
               [] a.focus = "CommitEditor" -> "RightPane"
               [] a.focus = "RightPane" -> "TabBar"
    IN  SetStatus([a EXCEPT !.focus = f], "Info", "Focus: " \o f)

ClearEditor(a) ==
    Log(SetStatus([a EXCEPT !.commit_text = ""], "Info", "Cleared commit message."),
        "Cleared commit message.")

(***************************************************************************)
(* Key events and the handlers of App (src/tui/app.rs 601-925). A handler  *)
(* returns what it did to the App together with the call it makes on the   *)
(* world outside the App: a start_* call on the task runner, a blocking    *)
(* operation, or the release.                                              *)
(***************************************************************************)
Press(code, ch, mods) == [kind |-> "Press", code |-> code, ch |-> ch, mods |-> mods]

NONE == {}

NoEffect == [op |-> "none"]

StartTask(kind, arg) == [op |-> "start", kind |-> kind, arg |-> arg]

Blocking(name) == [op |-> "blocking", name |-> name]

PlanRelease(bump) == [op |-> "plan_bump", bump |-> bump]

PerformRelease(version) == [op |-> "release", version |-> version]

\* The modal kind a purpose handler found when it was called ("-": no
\* purpose handler was called).
NotForwarded == "-"

Handled(a, effect) ==
    [handled |-> TRUE, app |-> a, effect |-> effect, seen |-> NotForwarded]

NotHandled(a) ==
    [handled |-> FALSE, app |-> a, effect |-> NoEffect, seen |-> NotForwarded]

Forwarded(r, seen) == [r EXCEPT !.seen = seen]

IsControl(ch) == ch \in {"\t", "\n"}

\* String::pop.
Pop(s) == IF s = "" THEN s ELSE SubSeq(s, 1, Len(s) - 1)

HandleConfirm(a, purpose) ==
    CASE purpose = "ClearConfig" -> Handled(a, Blocking("ClearConfig"))
      [] purpose = "PushAllTags" -> Handled(a, StartTask("PushAllTags", "-"))
      [] purpose = "ReleaseTrigger" ->
            IF a.pending_release_version # NoVersion
            THEN Handled(a, PerformRelease(a.pending_release_version))
            ELSE Handled(Log(SetStatus(a, "Error", "No pending release version."),
                             "Release failed: missing pending version."),
                         NoEffect)

\* Variant of handle_text_input that runs the release on the version typed,
\* without the confirmation.
HandleTextInputReleasesAtOnce(a, purpose, value) ==
    LET v == Trim(value)
    IN  CASE purpose = "PushSpecificTag" ->
                IF v = ""
                THEN Handled(Log(SetStatus(a, "Error", "Tag cannot be empty."),
                                 "Push tag failed: empty tag."),
                             NoEffect)
                ELSE Handled(a, StartTask("PushTag", v))
          [] purpose = "ReleaseCustomVersion" ->
                IF v = ""
                THEN Handled(Log(SetStatus(a, "Error", "Version cannot be empty."),
                                 "Release failed: empty version."),
                             NoEffect)
                ELSE Handled(a, PerformRelease(v))

HandleTextInput(a, purpose, value) ==
    LET v == Trim(value)
    IN  CASE purpose = "PushSpecificTag" ->
                IF v = ""
                THEN Handled(Log(SetStatus(a, "Error", "Tag cannot be empty."),
                                 "Push tag failed: empty tag."),
                             NoEffect)
                ELSE Handled(a, StartTask("PushTag", v))
          [] purpose = "ReleaseCustomVersion" ->
                IF v = ""
                THEN Handled(Log(SetStatus(a, "Error", "Version cannot be empty."),
                                 "Release failed: empty version."),
                             NoEffect)
                ELSE Handled([a EXCEPT !.pending_release_version = v,
                                       !.modal = ReleaseConfirmModal(CustomQuestion(v))],
                             NoEffect)

IsCtrlC(key) == key.code = "Char" /\ key.ch = "c" /\ "CONTROL" \in key.mods

\* Variant of the modal arm that calls the purpose handlers with the modal
\* still open.
ModalKeyForwardsOpen(a, key) ==
    IF IsCtrlC(key) THEN Handled([a EXCEPT !.should_quit = TRUE], NoEffect)
    ELSE IF key.code = "Esc"
    THEN Handled(SetStatus([a EXCEPT !.modal = ModalNone], "Info", "Closed dialog."),
                 NoEffect)
    ELSE IF key.code = "Enter" /\ key.mods = NONE /\ a.modal.kind = "Confirm"
    THEN IF a.modal.confirm_purpose # NoPurpose
         THEN Forwarded(HandleConfirm(a, a.modal.confirm_purpose), a.modal.kind)
         ELSE Handled(a, NoEffect)
    ELSE IF key.code = "Backspace" /\ key.mods = NONE /\ a.modal.kind = "TextInput"
    THEN Handled([a EXCEPT !.modal.input_value = Pop(@)], NoEffect)
    ELSE IF key.code = "Enter" /\ key.mods = NONE /\ a.modal.kind = "TextInput"
    THEN IF a.modal.input_purpose # NoPurpose
         THEN Forwarded(HandleTextInput(a, a.modal.input_purpose,
                                        Trim(a.modal.input_value)),
                        a.modal.kind)
         ELSE Handled(a, NoEffect)
    ELSE IF key.code = "Char" /\ key.mods = NONE /\ a.modal.kind = "TextInput"
    THEN Handled(IF IsControl(key.ch) THEN a
                 ELSE [a EXCEPT !.modal.input_value = @ \o key.ch],
                 NoEffect)
    ELSE Handled(a, NoEffect)

\* Variant of the modal arm whose Escape resets the kind of the modal and
\* leaves its purpose and its buffer.
ModalKeyEscKeepsTags(a, key) ==
    IF IsCtrlC(key) THEN Handled([a EXCEPT !.should_quit = TRUE], NoEffect)
    ELSE IF key.code = "Esc"
    THEN Handled(SetStatus([a EXCEPT !.modal.kind = "None"], "Info", "Closed dialog."),
                 NoEffect)
    ELSE IF key.code = "Enter" /\ key.mods = NONE /\ a.modal.kind = "Confirm"
    THEN LET purpose == a.modal.confirm_purpose
             closed == [a EXCEPT !.modal = ModalNone]
         IN  IF purpose # NoPurpose
             THEN Forwarded(HandleConfirm(closed, purpose), closed.modal.kind)
             ELSE Handled(closed, NoEffect)
    ELSE IF key.code = "Backspace" /\ key.mods = NONE /\ a.modal.kind = "TextInput"
    THEN Handled([a EXCEPT !.modal.input_value = Pop(@)], NoEffect)
    ELSE IF key.code = "Enter" /\ key.mods = NONE /\ a.modal.kind = "TextInput"
    THEN LET purpose == a.modal.input_purpose
             value == Trim(a.modal.input_value)
             closed == [a EXCEPT !.modal = ModalNone]
         IN  IF purpose # NoPurpose
             THEN Forwarded(HandleTextInput(closed, purpose, value), closed.modal.kind)
             ELSE Handled(closed, NoEffect)
    ELSE IF key.code = "Char" /\ key.mods = NONE /\ a.modal.kind = "TextInput"
    THEN Handled(IF IsControl(key.ch) THEN a
                 ELSE [a EXCEPT !.modal.input_value = @ \o key.ch],
                 NoEffect)
    ELSE Handled(a, NoEffect)

\* The modal arm of handle_global_key (603-651).
ModalKey(a, key) ==
    IF IsCtrlC(key) THEN Handled([a EXCEPT !.should_quit = TRUE], NoEffect)
    ELSE IF key.code = "Esc"
    THEN Handled(SetStatus([a EXCEPT !.modal = ModalNone], "Info", "Closed dialog."),
                 NoEffect)
    ELSE IF key.code = "Enter" /\ key.mods = NONE /\ a.modal.kind = "Confirm"
    THEN LET purpose == a.modal.confirm_purpose
             closed == [a EXCEPT !.modal = ModalNone]
         IN  IF purpose # NoPurpose
             THEN Forwarded(HandleConfirm(closed, purpose), closed.modal.kind)
             ELSE Handled(closed, NoEffect)
    ELSE IF key.code = "Backspace" /\ key.mods = NONE /\ a.modal.kind = "TextInput"
    THEN Handled([a EXCEPT !.modal.input_value = Pop(@)], NoEffect)
    ELSE IF key.code = "Enter" /\ key.mods = NONE /\ a.modal.kind = "TextInput"
    THEN LET purpose == a.modal.input_purpose
             value == Trim(a.modal.input_value)
             closed == [a EXCEPT !.modal = ModalNone]
         IN  IF purpose # NoPurpose
             THEN Forwarded(HandleTextInput(closed, purpose, value), closed.modal.kind)
             ELSE Handled(closed, NoEffect)
    ELSE IF key.code = "Char" /\ key.mods = NONE /\ a.modal.kind = "TextInput"
    THEN Handled(IF IsControl(key.ch) THEN a
                 ELSE [a EXCEPT !.modal.input_value = @ \o key.ch],
                 NoEffect)
    ELSE Handled(a, NoEffect)

\* Variant of the help overlay that captures only its own keys and lets every
\* other key through to the layers below.
HelpKeyPassesThrough(a, key) ==
    IF key.mods = NONE /\ key.code = "Char" /\ key.ch = "?"
    THEN Handled(SetStatus([a EXCEPT !.show_help = ~a.show_help], "Info",
                           IF ~a.show_help THEN "Help opened. Press ? again to close."
                           ELSE "Help closed."),
                 NoEffect)
    ELSE IF a.show_help /\ key.code = "Esc"
    THEN Handled(SetStatus([a EXCEPT !.show_help = FALSE], "Info", "Help closed."),
                 NoEffect)
    ELSE IF a.show_help /\ IsCtrlC(key)
    THEN Handled([a EXCEPT !.should_quit = TRUE], NoEffect)
    ELSE NotHandled(a)

\* The help toggle and the help overlay of handle_global_key (653-683).
HelpKey(a, key) ==
    IF key.mods = NONE /\ key.code = "Char" /\ key.ch = "?"
    THEN Handled(SetStatus([a EXCEPT !.show_help = ~a.show_help], "Info",
                           IF ~a.show_help THEN "Help opened. Press ? again to close."
                           ELSE "Help closed."),
                 NoEffect)
    ELSE IF a.show_help
    THEN IF key.code = "Esc"
         THEN Handled(SetStatus([a EXCEPT !.show_help = FALSE], "Info", "Help closed."),
                      NoEffect)
         ELSE IF IsCtrlC(key) THEN Handled([a EXCEPT !.should_quit = TRUE], NoEffect)
         ELSE Handled(a, NoEffect)
    ELSE NotHandled(a)

\* Variant of handle_global_key whose modal captures only the keys it acts on
\* and lets the others through to the help overlay and the layers below.
HandleGlobalKeyModalPassesThrough(a, key) ==
    IF /\ a.modal.kind # "None"
       /\ \/ IsCtrlC(key)
          \/ key.code = "Esc"
          \/ key.code \in {"Enter", "Backspace", "Char"} /\ key.mods = NONE
    THEN ModalKey(a, key)
    ELSE HelpKey(a, key)

HandleGlobalKey(a, key) ==
    IF a.modal.kind # "None" THEN ModalKey(a, key) ELSE HelpKey(a, key)

\* Variant of handle_nav_key whose plain arrows switch tabs whatever the focus.
HandleNavKeyArrowsAlways(a, key) ==
    IF key.code = "Esc" \/ IsCtrlC(key)
    THEN Handled([a EXCEPT !.should_quit = TRUE], NoEffect)
    ELSE IF key.code = "Tab" /\ key.mods = NONE THEN Handled(FocusNext(a), NoEffect)
    ELSE IF key.code = "Right" /\ "ALT" \in key.mods THEN Handled(NextTab(a), NoEffect)
    ELSE IF key.code = "Left" /\ "ALT" \in key.mods THEN Handled(PrevTab(a), NoEffect)
    ELSE IF key.code = "Right" /\ key.mods = NONE THEN Handled(NextTab(a), NoEffect)
    ELSE IF key.code = "Left" /\ key.mods = NONE THEN Handled(PrevTab(a), NoEffect)
    ELSE NotHandled(a)

HandleNavKey(a, key) ==
    IF key.code = "Esc" \/ IsCtrlC(key)
    THEN Handled([a EXCEPT !.should_quit = TRUE], NoEffect)
    ELSE IF key.code = "Tab" /\ key.mods = NONE THEN Handled(FocusNext(a), NoEffect)
    ELSE IF key.code = "Right" /\ "ALT" \in key.mods THEN Handled(NextTab(a), NoEffect)
    ELSE IF key.code = "Left" /\ "ALT" \in key.mods THEN Handled(PrevTab(a), NoEffect)
    ELSE IF key.code = "Right" /\ key.mods = NONE /\ a.focus # "CommitEditor"
    THEN Handled(NextTab(a), NoEffect)
    ELSE IF key.code = "Left" /\ key.mods = NONE /\ a.focus # "CommitEditor"
    THEN Handled(PrevTab(a), NoEffect)
    ELSE NotHandled(a)

\* to_textarea_input maps these key codes, with any modifiers, to an editor
\* input; TextArea::input on the text of the editor appends a character or a
\* line break and removes one character on Backspace, the other inputs move
\* the cursor.
EditorKeys == {"Char", "Enter", "Backspace", "Delete", "Left", "Right", "Up", "Down",
               "Home", "End", "PageUp", "PageDown", "Tab"}

ToTextareaInput(key) == key.code \in EditorKeys

EditorInputKey(a, key) ==
    IF key.mods \cap {"CONTROL", "ALT"} # {} THEN a
    ELSE CASE key.code = "Char" -> [a EXCEPT !.commit_text = @ \o key.ch]
           [] key.code = "Enter" -> [a EXCEPT !.commit_text = @ \o "\n"]
           [] key.code = "Backspace" -> [a EXCEPT !.commit_text = Pop(@)]
           [] OTHER -> a

HandleGenerateKey(a, key) ==
    IF key.code = "Char" /\ key.ch = "g" /\ key.mods = NONE
    THEN Handled(a, StartTask("GenerateCommitFromStaged", "-"))
    ELSE IF key.code = "Enter" /\ key.mods = NONE
    THEN Handled(a, StartTask("CommitFromEditor", "-"))
    ELSE IF key.code = "Char" /\ key.ch = "c" /\ key.mods = NONE
    THEN Handled(ClearEditor(a), NoEffect)
    ELSE IF a.focus = "CommitEditor" /\ ToTextareaInput(key)
    THEN Handled(EditorInputKey(a, key), NoEffect)
    ELSE NotHandled(a)

(***************************************************************************)
(* activate_selected_action (src/tui/app.rs 385-539) and dispatch_key      *)
(* (src/tui/input.rs 17-142). Status texts are kept in ASCII: an ellipsis  *)
(* is written "..." and the arrows of the hint "Up/Down".                  *)
(***************************************************************************)
BumpOf(action) ==
    CASE action = "ReleasePatch" -> "Patch"
      [] action = "ReleaseMinor" -> "Minor"
      [] action = "ReleaseMajor" -> "Major"

ActivateSelectedAction(a) ==
    LET action == SelectedAction(a)
    IN  CASE action = NoAction -> NotHandled(a)
          [] action = "GenerateFromStaged" ->
                Handled(a, StartTask("GenerateCommitFromStaged", "-"))
          [] action = "Commit" -> Handled(a, StartTask("CommitFromEditor", "-"))
          [] action = "ClearMessage" -> Handled(ClearEditor(a), NoEffect)
          [] action = "StagePatch" ->
                Handled(Log(SetStatus(a, "Info",
                                      "Switching to terminal for interactive staging..."),
                            "Switching to terminal: git add -p (interactive)"),
                        Blocking("StagePatch"))
          [] action = "StageAll" -> Handled(a, StartTask("StageAll", "-"))
          [] action = "UnstagePatch" ->
                Handled(Log(SetStatus(a, "Info",
                                      "Switching to terminal for interactive unstaging..."),
                            "Switching to terminal: unstage interactively"),
                        Blocking("UnstagePatch"))
          [] action = "UnstageAll" -> Handled(a, Blocking("UnstageAll"))
          [] action = "ViewStaged" -> Handled(a, StartTask("LoadDiff", "Staged"))
          [] action = "ViewUnstaged" -> Handled(a, StartTask("LoadDiff", "Unstaged"))
          [] action = "ViewBoth" -> Handled(a, StartTask("LoadDiff", "Both"))
          [] action = "PushBranch" -> Handled(a, StartTask("PushBranch", "-"))
          [] action = "PushSpecificTag" ->
                Handled([a EXCEPT !.modal = TextInputModal("PushSpecificTag")], NoEffect)
          [] action = "PushAllTags" ->
                Handled([a EXCEPT !.modal = ConfirmModal("PushAllTags")], NoEffect)
          [] action \in {"ReleasePatch", "ReleaseMinor", "ReleaseMajor"} ->
                Handled(a, PlanRelease(BumpOf(action)))
          [] action = "ReleaseCustom" ->
                Handled([a EXCEPT !.modal = TextInputModal("ReleaseCustomVersion")],
                        NoEffect)
          [] action = "RunSetupWizard" -> Handled(a, Blocking("RunSetupWizard"))
          [] action = "ReloadConfig" -> Handled(a, Blocking("ReloadConfig"))
          [] action = "ClearConfig" ->
                Handled([a EXCEPT !.modal = ConfirmModal("ClearConfig")], NoEffect)

\* Variant of the classification that also suspends the terminal for "stage
\* all", which runs on the worker.
SuspendedActionsWithStageAll ==
    {"RunSetupWizard", "StagePatch", "UnstagePatch", "ReleasePatch", "ReleaseMinor",
     "ReleaseMajor", "ReleaseCustom", "StageAll"}

\* The actions dispatch_key activates inside with_tui_suspended.
SuspendedActions ==
    {"RunSetupWizard", "StagePatch", "UnstagePatch", "ReleasePatch", "ReleaseMinor",
     "ReleaseMajor", "ReleaseCustom"}

\* The layers of dispatch_key, each as it acts when it is reached.
ModalLayer(a, key) == IF a.modal.kind # "None" THEN ModalKey(a, key) ELSE NotHandled(a)

HelpLayer(a, key) == HelpKey(a, key)

NavLayer(a, key) == HandleNavKey(a, key)

\* The layer that depends on the focus: away from the action list Enter is
\* answered with a hint on every tab but Generate (34-46); on the action list
\* Up and Down move the selection and Enter activates it (51-92).
FocusLayer(a, key) ==
    IF /\ a.active_tab \in {"Stage", "Diff", "Push", "Release", "Config"}
       /\ a.focus # "LeftPane"
       /\ key.mods = NONE
       /\ key.code = "Enter"
    THEN Handled(SetStatus(a, "Info",
                           "Tip: Tab to focus Actions, then Up/Down and Enter to run."),
                 NoEffect)
    ELSE IF a.focus = "LeftPane" /\ key.mods = NONE /\ key.code = "Up"
    THEN Handled(ActionUp(a), NoEffect)
    ELSE IF a.focus = "LeftPane" /\ key.mods = NONE /\ key.code = "Down"
    THEN Handled(ActionDown(a), NoEffect)
    ELSE IF a.focus = "LeftPane" /\ key.mods = NONE /\ key.code = "Enter"
    THEN IF SelectedAction(a) = NoAction THEN Handled(a, NoEffect)
         ELSE IF SelectedAction(a) \in SuspendedActions
         THEN [ActivateSelectedAction(a) EXCEPT !.handled = TRUE]
         ELSE ActivateSelectedAction(a)
    ELSE NotHandled(a)

\* usize::saturating_add / saturating_sub on diff_scroll. The upper limit,
\* usize::MAX, is beyond any offset a bounded run of key presses can reach.
SaturatingAdd(n, d) == n + d

SaturatingSub(n, d) == IF n < d THEN 0 ELSE n - d

\* str::lines().count(): the pieces between line feeds, a last piece that is
\* empty not counted.
RECURSIVE LineCount(_)
LineCount(text) ==
    IF text = "" THEN 0
    ELSE IF \E i \in 1..Len(text) : SubSeq(text, i, i) = "\n"
    THEN LET i == CHOOSE j \in 1..Len(text) :
                     /\ SubSeq(text, j, j) = "\n"
                     /\ \A k \in 1..(j - 1) : SubSeq(text, k, k) # "\n"
         IN  1 + LineCount(SubSeq(text, i + 1, Len(text)))
    ELSE 1

\* draw_diff_tab (view.rs 308-313): the offset the viewer skips to is the
\* stored one cut down to the last full page; the stored one is not touched.
MaxScroll(a, viewport_h) == SaturatingSub(LineCount(a.diff_text), viewport_h)

DrawnScroll(a, viewport_h) ==
    IF a.diff_scroll < MaxScroll(a, viewport_h) THEN a.diff_scroll
    ELSE MaxScroll(a, viewport_h)

DiffLayer(a, key) ==
    IF a.active_tab = "Diff" /\ a.focus # "LeftPane" /\ key.mods = NONE
    THEN CASE key.code = "Up" ->
                Handled(IF a.diff_scroll > 0 THEN [a EXCEPT !.diff_scroll = @ - 1] ELSE a,
                        NoEffect)
           [] key.code = "Down" ->
                Handled([a EXCEPT !.diff_scroll = SaturatingAdd(@, 1)], NoEffect)
           [] key.code = "PageUp" ->
                Handled([a EXCEPT !.diff_scroll = SaturatingSub(@, 20)], NoEffect)
           [] key.code = "PageDown" ->
                Handled([a EXCEPT !.diff_scroll = SaturatingAdd(@, 20)], NoEffect)
           [] key.code = "Home" -> Handled([a EXCEPT !.diff_scroll = 0], NoEffect)
           [] OTHER -> NotHandled(a)
    ELSE NotHandled(a)

\* Variant of the tab-specific fallback that offers the shortcuts of the
\* Generate tab on every tab.
TabLayerEveryTab(a, key) == HandleGenerateKey(a, key)

TabLayer(a, key) ==
    IF a.active_tab = "Generate" THEN HandleGenerateKey(a, key) ELSE NotHandled(a)

LayerOrder == <<"modal", "help", "navigation", "focus", "diff", "tab">>

Layer(name, a, key) ==
    CASE name = "modal" -> ModalLayer(a, key)
      [] name = "help" -> HelpLayer(a, key)
      [] name = "navigation" -> NavLayer(a, key)
      [] name = "focus" -> FocusLayer(a, key)
      [] name = "diff" -> DiffLayer(a, key)
      [] name = "tab" -> TabLayer(a, key)

\* What dispatch_key did with a key: the layer that consumed it, the App it
\* left, the call it makes outside the App, and whether that call runs inside
\* with_tui_suspended (input.rs 66-82, app.rs 852-857).
Dispatched(layer, r, a, key) ==
    [handled |-> r.handled, layer |-> layer, app |-> r.app, effect |-> r.effect,
     seen |-> r.seen,
     suspended |-> \/ r.effect.op = "release"
                   \/ /\ layer = "focus"
                      /\ a.focus = "LeftPane"
                      /\ key.code = "Enter"
                      /\ SelectedAction(a) \in SuspendedActions]

\* Variant of dispatch_key that looks at the navigation keys before the
\* modal and the help overlay.
DispatchKeyNavigationFirst(a, key) ==
    LET global == HandleGlobalKey(a, key)
        nav == HandleNavKey(a, key)
        focus == FocusLayer(a, key)
        diff == DiffLayer(a, key)
        tab == TabLayer(a, key)
    IN  IF key.kind # "Press" THEN Dispatched("ignored", NotHandled(a), a, key)
        ELSE IF nav.handled THEN Dispatched("navigation", nav, a, key)
        ELSE IF global.handled
        THEN Dispatched(IF a.modal.kind # "None" THEN "modal" ELSE "help", global, a, key)
        ELSE IF focus.handled THEN Dispatched("focus", focus, a, key)
        ELSE IF diff.handled THEN Dispatched("diff", diff, a, key)
        ELSE IF tab.handled THEN Dispatched("tab", tab, a, key)
        ELSE Dispatched("none", NotHandled(a), a, key)

DispatchKey(a, key) ==
    LET global == HandleGlobalKey(a, key)
        nav == HandleNavKey(a, key)
        focus == FocusLayer(a, key)
        diff == DiffLayer(a, key)
        tab == TabLayer(a, key)
    IN  IF key.kind # "Press" THEN Dispatched("ignored", NotHandled(a), a, key)
        ELSE IF global.handled
        THEN Dispatched(IF a.modal.kind # "None" THEN "modal" ELSE "help", global, a, key)
        ELSE IF nav.handled THEN Dispatched("navigation", nav, a, key)
        ELSE IF focus.handled THEN Dispatched("focus", focus, a, key)
        ELSE IF diff.handled THEN Dispatched("diff", diff, a, key)
        ELSE IF tab.handled THEN Dispatched("tab", tab, a, key)
        ELSE Dispatched("none", NotHandled(a), a, key)

(***************************************************************************)
(* The terminal and with_tui_suspended (src/tui/runtime.rs 49-69). Each of *)
(* the four terminal calls can fail; its error is discarded by `let _ =`   *)
(* and a failed call leaves the mode it was to change as it was.           *)
(***************************************************************************)
ManagedTerm ==
    [raw |-> TRUE, alt |-> TRUE, phase |-> "managed", left |-> <<>>, restore |-> <<>>,
     result |-> "none", returned |-> "none"]

\* Which of the terminal calls succeed: the two that leave the managed mode
\* and the two that enter it again.
LeaveCalls == [disable_raw_mode : BOOLEAN, leave_alternate_screen : BOOLEAN]

EnterCalls == [enter_alternate_screen : BOOLEAN, enable_raw_mode : BOOLEAN]

NoLeaveCalls == {[disable_raw_mode |-> TRUE, leave_alternate_screen |-> TRUE]}

NoEnterCalls == {[enter_alternate_screen |-> TRUE, enable_raw_mode |-> TRUE]}

\* Lines 58-59: disable_raw_mode, then LeaveAlternateScreen; f() runs next.
Suspend(t, leave) ==
    [raw |-> t.raw /\ ~leave.disable_raw_mode,
     alt |-> t.alt /\ ~leave.leave_alternate_screen,
     phase |-> "suspended",
     left |-> <<[call |-> "disable_raw_mode", ok |-> leave.disable_raw_mode],
                [call |-> "LeaveAlternateScreen", ok |-> leave.leave_alternate_screen]>>,
     restore |-> <<>>, result |-> "none", returned |-> "none"]

\* Variant of lines 62-68 that returns early when the closure failed, as
\* `let result = f()?;` would.
ResumeUnlessFailed(t, result, enter) ==
    IF result = "Err"
    THEN [t EXCEPT !.phase = "returned", !.result = result, !.returned = result]
    ELSE [raw |-> t.raw \/ enter.enable_raw_mode,
          alt |-> t.alt \/ enter.enter_alternate_screen,
          phase |-> "returned", left |-> t.left,
          restore |-> <<[call |-> "EnterAlternateScreen", ok |-> enter.enter_alternate_screen],
                        [call |-> "enable_raw_mode", ok |-> enter.enable_raw_mode]>>,
          result |-> result, returned |-> result]

\* Lines 62-68: f() has returned `result`; EnterAlternateScreen, then
\* enable_raw_mode, then `result` is returned.
Resume(t, result, enter) ==
    [raw |-> t.raw \/ enter.enable_raw_mode,
     alt |-> t.alt \/ enter.enter_alternate_screen,
     phase |-> "returned", left |-> t.left,
     restore |-> <<[call |-> "EnterAlternateScreen", ok |-> enter.enter_alternate_screen],
                   [call |-> "enable_raw_mode", ok |-> enter.enable_raw_mode]>>,
     result |-> result, returned |-> result]

WithTuiSuspended(t, result, leave, enter) == Resume(Suspend(t, leave), result, enter)

(***************************************************************************)
(* The blocking operations a key can run on the UI thread (src/tui/app.rs  *)
(* 806-836, 1249-1278, 1388-1423) and what they leave in the App.          *)
(***************************************************************************)
GitOperations == {"StagePatch", "UnstagePatch", "UnstageAll"}

BlockingError(name) ==
    CASE name = "StagePatch" -> "git add -p failed."
      [] name = "UnstagePatch" -> "git reset -p failed."
      [] name = "UnstageAll" -> "git reset failed."
      [] name = "RunSetupWizard" -> "Setup cancelled."
      [] name = "ReloadConfig" -> "Failed to read config file"
      [] name = "ClearConfig" -> "Failed to remove config file"

\* What the operation returns: outside a repository the git operations bail
\* before they run git.
BlockingResult(name, w, ok) ==
    IF name \in GitOperations /\ ~w.inRepo THEN WorkErr(NotRepoMessage)
    ELSE IF ok THEN [ok |-> TRUE, error |-> ""]
    ELSE WorkErr(BlockingError(name))

FailurePrefix(name) ==
    CASE name = "StagePatch" -> "Stage patch failed: "
      [] name = "UnstagePatch" -> "Unstage patch failed: "
      [] name = "UnstageAll" -> "Unstage all failed: "
      [] name = "RunSetupWizard" -> "Setup failed: "
      [] name = "ReloadConfig" -> "Reload config failed: "
      [] name = "ClearConfig" -> "Clear config failed: "

SuccessStatus(name) ==
    CASE name = "StagePatch" -> "Staging complete."
      [] name = "UnstagePatch" -> "Unstaging complete."
      [] name = "UnstageAll" -> "Unstaged all changes."
      [] name = "RunSetupWizard" -> "Setup complete."
      [] name = "ReloadConfig" -> "Config reloaded."
      [] name = "ClearConfig" -> "Config cleared."

SuccessLog(name) ==
    CASE name = "StagePatch" -> "Staged changes interactively."
      [] name = "UnstagePatch" -> "Unstaged changes interactively."
      [] OTHER -> SuccessStatus(name)

\* The provider and model labels after a configuration operation succeeded:
\* those of the configuration file, or the placeholders when there is none.
Labelled(a, name, configured) ==
    IF name = "ClearConfig" \/ (name = "ReloadConfig" /\ ~configured)
    THEN [a EXCEPT !.provider_label = "Not configured", !.model_label = "-"]
    ELSE IF name \in {"RunSetupWizard", "ReloadConfig"}
    THEN [a EXCEPT !.provider_label = "OpenAI", !.model_label = "gpt-4o"]
    ELSE a

\* Variant of the error arms that writes the log line and leaves the status
\* line as it was.
AfterBlockingLogsOnly(a, name, result, configured) ==
    IF result.ok
    THEN Log(SetStatus(Labelled(a, name, configured), "Success", SuccessStatus(name)),
             SuccessLog(name))
    ELSE Log(a, FailurePrefix(name) \o result.error)

AfterBlocking(a, name, result, configured) ==
    IF result.ok
    THEN Log(SetStatus(Labelled(a, name, configured), "Success", SuccessStatus(name)),
             SuccessLog(name))
    ELSE Log(SetStatus(a, "Error", result.error), FailurePrefix(name) \o result.error)

\* The index after the git operation: `git add -p` stages what was picked of
\* the changes of the working tree, the unstage operations empty the index.
WorldAfterBlocking(w, name, result, picked) ==
    IF ~result.ok THEN w
    ELSE CASE name = "StagePatch" -> [w EXCEPT !.staged = @ \/ (picked /\ w.dirty)]
           [] name = "UnstagePatch" -> [w EXCEPT !.staged = @ /\ ~picked]
           [] name = "UnstageAll" -> [w EXCEPT !.staged = FALSE]
           [] OTHER -> w

\* start_release_bump after plan_bump("Cargo.toml", ..) returned.
\* Variant of start_release_bump that asks for the confirmation and does not
\* store the version it asks about.
AfterPlanBumpForgetsVersion(a, planned) ==
    IF ~planned.ok
    THEN Log(SetStatus(a, "Error", planned.error), "Release failed: " \o planned.error)
    ELSE [a EXCEPT !.modal =
            ReleaseConfirmModal(BumpQuestion(planned.plan.old_version,
                                             planned.plan.new_version,
                                             planned.plan.tag))]

AfterPlanBump(a, planned) ==
    IF ~planned.ok
    THEN Log(SetStatus(a, "Error", planned.error), "Release failed: " \o planned.error)
    ELSE [a EXCEPT !.pending_release_version = planned.plan.new_version,
                   !.modal =
                       ReleaseConfirmModal(BumpQuestion(planned.plan.old_version,
                                                        planned.plan.new_version,
                                                        planned.plan.tag))]

\* Cargo.toml as plan_bump reads it: with the version under [package], or
\* with a version inherited from the workspace.
CargoToml(w, own_version) ==
    Manifest(IF own_version THEN "standard" ELSE "inherited", w.cargo_version)

(***************************************************************************)
(* One pass of the run_tui loop that receives a key (src/tui/mod.rs 72-80):*)
(* dispatch_key, with every call the handlers make.                        *)
(***************************************************************************)
MaxKeys == 2

Plain(code) == Press(code, "", NONE)

Char(ch) == Press("Char", ch, NONE)

Keys ==
    {Plain("Esc"), Plain("Enter"), Plain("Backspace"), Plain("Tab"), Plain("Left"),
     Plain("Right"), Plain("Up"), Plain("Down"), Plain("PageUp"), Plain("PageDown"),
     Plain("Home"), Char("?"), Char("g"), Char("c"), Char("4"),
     Press("Char", "c", {"CONTROL"}), Press("Left", "", {"ALT"}),
     Press("Right", "", {"ALT"}), Press("Enter", "", {"SHIFT"}),
     Press("Char", "A", {"SHIFT"}),
     [kind |-> "Release", code |-> "Enter", ch |-> "", mods |-> NONE]}

NotStarted(a, cur) ==
    [app |-> a, current |-> cur, sent |-> <<>>, held |-> <<>>, spawn |-> FALSE,
     ret |-> FALSE]

\* failed: a call the key made returned an error, or the handler rejected
\* its input.
KeyRecord(key, d, before, after, failed) ==
    [key |-> key, layer |-> d.layer, handled |-> d.handled, seen |-> d.seen,
     suspended |-> d.suspended, effect |-> d.effect, before |-> before,
     dispatched |-> d.app, after |-> after, failed |-> failed]

PressKey(key) ==
    /\ uiPc = "input"
    /\ nCalls < MaxKeys
    /\ ~app.should_quit
    /\ \E d \in {DispatchKey(app, key)} :
       \E leave \in (IF d.suspended THEN LeaveCalls ELSE NoLeaveCalls) :
       \E enter \in (IF d.suspended /\ d.effect.op # "release" THEN EnterCalls
                      ELSE NoEnterCalls) :
       \E ok \in (IF d.effect.op \in {"blocking", "plan_bump"} THEN BOOLEAN ELSE {TRUE}) :
       \E picked \in (IF d.effect.op = "blocking" THEN BOOLEAN ELSE {TRUE}) :
       \E st \in {IF d.effect.op = "start"
                  THEN StartAction(d.app, current, d.effect.kind, d.effect.arg,
                                   world.inRepo, Len(workers) + 1)
                  ELSE NotStarted(d.app, current)} :
       \E result \in {IF d.effect.op = "blocking"
                      THEN BlockingResult(d.effect.name, world, ok)
                      ELSE [ok |-> TRUE, error |-> ""]} :
       \E planned \in {IF d.effect.op = "plan_bump"
                       THEN PlanBumpOn(CargoToml(world, ok), d.effect.bump, FALSE)
                       ELSE [ok |-> TRUE, error |-> ""]} :
       \E after \in {CASE d.effect.op = "start" -> st.app
                       [] d.effect.op = "blocking" ->
                             AfterBlocking(d.app, d.effect.name, result, picked)
                       [] d.effect.op = "plan_bump" -> AfterPlanBump(d.app, planned)
                       [] d.effect.op = "release" ->
                             [d.app EXCEPT
                                 !.pending_release_version = d.effect.version]
                       [] OTHER -> d.app} :
          LET op == d.effect.op
              failed ==
                  \/ op = "start" /\ ~st.spawn /\ ~IsBusy(current)
                  \/ op = "blocking" /\ ~result.ok
                  \/ op = "plan_bump" /\ ~planned.ok
                  \/ op = "none" /\ d.seen # NotForwarded /\ d.app.modal.kind = "None"
          IN  /\ op = "release" => rel.run < MaxRuns
              /\ app' = after
              /\ current' = st.current
              /\ chan' = chan \o st.sent
              /\ emitted' = emitted \o st.sent
              /\ lockAtSend' = lockAtSend \o st.held
              /\ workers' = IF st.spawn
                            THEN Append(workers, Worker(d.effect.kind, d.effect.arg))
                            ELSE workers
              /\ calls' = IF op = "start"
                          THEN Append(calls, Call("activate", d.effect.kind, st.ret))
                          ELSE calls
              /\ world' = IF op = "blocking"
                          THEN WorldAfterBlocking(world, d.effect.name, result, picked)
                          ELSE world
              /\ rel' = IF op = "release"
                        THEN NewRun("tui", DefaultConfig, NoPlan, d.effect.version,
                                    "", rel.run + 1, world)
                        ELSE rel
              /\ term' = IF op = "release" THEN Suspend(term, leave)
                         ELSE IF d.suspended
                         THEN WithTuiSuspended(term, "Ok", leave, enter)
                         ELSE term
              /\ uiPc' = IF op = "release" THEN "suspended" ELSE "drain"
              /\ keys' = <<KeyRecord(key, d, app, after, failed)>>
    /\ nCalls' = nCalls + 1
    /\ UNCHANGED <<applied, calc>>

\* perform_release has returned inside with_tui_suspended: the terminal is
\* restored and handle_confirm reports the result (app.rs 857-882).
ResumeRelease ==
    /\ uiPc = "suspended"
    /\ Unhandled
    /\ rel.flow = "tui"
    /\ \E enter \in EnterCalls : term' = Resume(term, rel.result, enter)
    /\ rel' = [rel EXCEPT !.handled = "status"]
    /\ app' = Reported(app, rel)
    /\ uiPc' = "drain"
    /\ UNCHANGED <<world, current, chan, workers, nCalls, emitted, applied, calls, lockAtSend, keys, calc>>

\* event::poll times out: the loop goes round without a key.
NoKey ==
    /\ uiPc = "input"
    /\ ~app.should_quit
    /\ uiPc' = "drain"
    /\ UNCHANGED <<current, chan, workers, app, nCalls, emitted, applied, calls, rel, world, lockAtSend, term, keys, calc>>

\* The release steps that run on the UI thread while the terminal is
\* suspended.
SuspendedReleaseStep ==
    /\ uiPc = "suspended"
    /\ \/ PlanCustom
       \/ Guardrail
       \/ Preflight
       \/ VersionBump
       \/ Lockfile
       \/ StageAll
       \/ GenerateMessage
       \/ Commit
       \/ CollisionCheck
       \/ CreateTag
       \/ PushTag

KeyNext ==
    \/ \E key \in Keys : PressKey(key)
    \/ NoKey
    \/ DrainApply
    \/ DrainEmpty
    \/ ResumeRelease
    \/ SuspendedReleaseStep
    \/ WorkerStep

NoCalc == [fn |-> "none"]

(***************************************************************************)
(* Specifications.                                                         *)
(***************************************************************************)
QuietWorld ==
    [inRepo |-> TRUE, remote |-> TRUE, dirty |-> FALSE, staged |-> FALSE,
     branch |-> "master", cargo_version |-> InitialVersion,
     lock_refreshed |-> FALSE, commits |-> 0, tagsLocal |-> {}, tagsRemote |-> {}]

Init ==
    /\ TaskInit
    /\ world = QuietWorld
    /\ rel = IdleRelease(QuietWorld)
    /\ term = ManagedTerm
    /\ keys = <<>>
    /\ calc = NoCalc

Next == UiStep \/ WorkerStep

Spec == Init /\ [][Next]_vars

FairSpec == Spec /\ WF_vars(UiStep) /\ WF_vars(WorkerStep)

ReleaseStart ==
    /\ TaskInit
    /\ ReleaseInit
    /\ term = ManagedTerm
    /\ keys = <<>>
    /\ calc = NoCalc

ReleaseSpec == ReleaseStart /\ [][ReleaseNext]_vars

VersionStart ==
    /\ TaskInit
    /\ world = QuietWorld
    /\ rel = IdleRelease(QuietWorld)
    /\ term = ManagedTerm
    /\ keys = <<>>
    /\ VersionInit

VersionSpec == VersionStart /\ [][VersionNext]_vars

\* The App as a run of key presses can leave it: any tab, focus and selection,
\* the help overlay open or closed, the diff scrolled down on the Diff tab,
\* and a modal only as the action that opens it leaves it (the action list
\* focused, the help overlay closed).
InputValues == {"", " ", "1.2.4", " v0.2.3"}

OpenModals ==
    {[tab |-> "Push", index |-> 1, pending |-> NoVersion,
      modal |-> [TextInputModal("PushSpecificTag") EXCEPT !.input_value = v]] :
        v \in InputValues}
    \cup {[tab |-> "Release", index |-> 3, pending |-> NoVersion,
           modal |-> [TextInputModal("ReleaseCustomVersion") EXCEPT !.input_value = v]] :
        v \in InputValues}
    \cup {[tab |-> "Push", index |-> 2, pending |-> NoVersion,
           modal |-> ConfirmModal("PushAllTags")],
          [tab |-> "Config", index |-> 2, pending |-> NoVersion,
           modal |-> ConfirmModal("ClearConfig")],
          [tab |-> "Release", index |-> 0, pending |-> "1.2.4",
           modal |-> ReleaseConfirmModal(CustomQuestion("1.2.4"))]}

KeyApps ==
    {[InitApp EXCEPT !.active_tab = TabAll[t], !.focus = f, !.show_help = h,
                     !.action_index = i] :
        t \in DOMAIN TabAll, f \in {"TabBar", "CommitEditor", "LeftPane", "RightPane"},
        h \in BOOLEAN, i \in 0..3}
    \cup {[InitApp EXCEPT !.active_tab = "Diff", !.focus = f, !.show_help = FALSE,
                          !.action_index = i, !.diff_scroll = 5] :
        f \in {"LeftPane", "RightPane"}, i \in 0..2}
    \cup {[InitApp EXCEPT !.active_tab = m.tab, !.focus = "LeftPane",
                          !.show_help = FALSE, !.action_index = m.index,
                          !.pending_release_version = m.pending, !.modal = m.modal] :
        m \in OpenModals}

\* The background task the loop is started under.
BusyKinds == {"StageAll"}

\* The App while such a task is in flight: its Started has been applied and
\* a frame drawn, and the user has since moved to an action of the Stage tab
\* or to the confirmation of a custom release.
BusyApps(kind) ==
    LET label == LabelOf(kind, "-")
        run == ApplyEvent(InitApp, NoTask, StartedEvent(1, kind, label, 1))
        a == [run.app EXCEPT !.running_task = run.current, !.show_help = FALSE,
                             !.focus = "LeftPane"]
    IN  {[a EXCEPT !.active_tab = "Stage", !.action_index = i] : i \in 0..3}
        \cup {[a EXCEPT !.active_tab = "Release", !.action_index = 3,
                        !.pending_release_version = "1.2.4",
                        !.modal = ReleaseConfirmModal(CustomQuestion("1.2.4"))]}

\* The loop is entered with the runner idle, or with one accepted start whose
\* worker has not returned yet.
KeyStart ==
    /\ \/ /\ current = NoTask
          /\ workers = <<>>
          /\ app \in {a \in KeyApps : a.action_index < Len(ActionsFor(a.active_tab))}
          /\ emitted = <<>>
          /\ applied = <<>>
          /\ calls = <<>>
          /\ lockAtSend = <<>>
       \/ \E kind \in BusyKinds :
             \E st \in {Start(NoTask, kind, LabelOf(kind, "-"), 1)} :
                /\ current = st.current
                /\ workers = <<Worker(kind, "-")>>
                /\ app \in BusyApps(kind)
                /\ emitted = st.sent
                /\ applied = st.sent
                /\ calls = <<[op |-> "activate", kind |-> kind, ret |-> st.ret,
                              pending |-> 0, window |-> FALSE]>>
                /\ lockAtSend = st.held
    /\ chan = <<>>
    /\ uiPc = "input"
    /\ nCalls = 0
    /\ world \in {QuietWorld, [QuietWorld EXCEPT !.dirty = TRUE]}
    /\ rel = IdleRelease(world)
    /\ term = ManagedTerm
    /\ keys = <<>>
    /\ calc = NoCalc

KeySpec == KeyStart /\ [][KeyNext]_vars

(***************************************************************************)
(* Properties of the TaskRunner and the render loop.                       *)
(***************************************************************************)
Tasks == 1..MaxCalls

CompletedApplied(t) ==
    \E i \in DOMAIN applied : applied[i].type = "Completed" /\ applied[i].task = t

CompletedEmitted(t) ==
    \E i \in DOMAIN emitted : emitted[i].type = "Completed" /\ emitted[i].task = t

\* Accepted starts whose Completed has not been applied yet.
InFlight == {t \in DOMAIN workers : ~CompletedApplied(t)}

CallMade == Len(calls') = Len(calls) + 1

NewCall == calls'[Len(calls')]

\* C1: at most one background task is in flight at any time; a start made
\* while one is in flight returns false, spawns no worker and sends no event;
\* and the Completed of the task in flight is still delivered and applied.
C1_SingleFlight ==
    /\ [](Cardinality(InFlight) <= 1)
    /\ [][(CallMade /\ NewCall.pending > 0) =>
            (/\ ~NewCall.ret
             /\ workers' = workers
             /\ emitted' = emitted
             /\ chan' = chan
             /\ current' = current)]_vars
    /\ \A t \in Tasks : (t \in DOMAIN workers) ~> CompletedApplied(t)

\* A start was refused while task 1 was in flight, and task 1's Completed
\* has been applied since.
C1_Witness ==
    /\ Len(workers) = 1
    /\ CompletedApplied(1)
    /\ \E i \in DOMAIN calls :
          calls[i].op = "start" /\ calls[i].pending > 0 /\ ~calls[i].ret

\* C2: between any two Started events sent on the channel there is a
\* Completed event.
C2_StartedSeparated ==
    \A i \in DOMAIN emitted : \A j \in DOMAIN emitted :
        (i < j /\ emitted[i].type = "Started" /\ emitted[j].type = "Started") =>
            \E k \in DOMAIN emitted : i < k /\ k < j /\ emitted[k].type = "Completed"

C2_Witness ==
    Cardinality({i \in DOMAIN emitted : emitted[i].type = "Started"}) = 2

\* C3: every accepted start leads to exactly one Completed event: never more
\* than one, eventually one, carrying the closure's TaskResult when it
\* succeeded and TaskResult::Error with the error's message when it failed.
C3_ExactlyOneCompleted ==
    /\ [](\A t \in DOMAIN workers :
            LET done == {i \in DOMAIN emitted :
                            emitted[i].type = "Completed" /\ emitted[i].task = t}
            IN  /\ Cardinality(done) <= 1
                /\ (workers[t].pc = "done") <=> (done # {})
                /\ \A i \in done :
                      IF workers[t].outcome.ok
                      THEN emitted[i].result = workers[t].outcome.value
                      ELSE /\ emitted[i].result.variant = "Error"
                           /\ emitted[i].result.message = workers[t].outcome.error)
    /\ \A t \in Tasks : (t \in DOMAIN workers) ~> CompletedEmitted(t)

\* One task completed with a failure and another with a success.
C3_Witness ==
    /\ Len(workers) = 2
    /\ workers[1].pc = "done" /\ ~workers[1].outcome.ok
    /\ workers[2].pc = "done" /\ workers[2].outcome.ok
    /\ CompletedEmitted(1) /\ CompletedEmitted(2)

\* C4: the busy flag is cleared exactly in the step in which drain_events
\* applies a Completed event, not when the worker sends it; while a Completed
\* waits in the channel the runner is busy and start returns false.
C4_BusyUntilApplied ==
    /\ [][LET appliesCompleted ==
                /\ Len(applied') = Len(applied) + 1
                /\ applied'[Len(applied')].type = "Completed"
          IN  /\ (IsBusy(current) /\ ~IsBusy(current')) => appliesCompleted
              /\ appliesCompleted => ~IsBusy(current')]_vars
    /\ []((\E i \in DOMAIN chan : chan[i].type = "Completed") => IsBusy(current))
    /\ [](\A i \in DOMAIN calls : calls[i].window => ~calls[i].ret)

\* A start was made while a Completed was waiting in the channel.
C4_Witness ==
    /\ \E i \in DOMAIN calls : calls[i].window /\ ~calls[i].ret
    /\ \E i \in DOMAIN applied : applied[i].type = "Completed"
    /\ ~IsBusy(current)

\* C5: drain_events applies every pending event, in the order the events
\* were sent; it returns only when the channel is empty; and a task's Started
\* is applied before any Progress or Completed of that task.
C5_DrainInOrder ==
    /\ [](emitted = applied \o chan)
    /\ [][(uiPc = "drain" /\ uiPc' = "input") => applied' = emitted]_vars
    /\ [](\A j \in DOMAIN applied :
            applied[j].type # "Started" =>
                \E i \in DOMAIN applied :
                    i < j /\ applied[i].type = "Started"
                          /\ applied[i].task = applied[j].task)

\* One drain found several events waiting and a whole task has been applied.
C5_Witness ==
    /\ Len(applied) >= 4
    /\ applied[1].type = "Started"
    /\ applied[2].type = "Progress"
    /\ applied[3].type = "Progress"
    /\ applied[4].type = "Completed"

\* C6: a background action activated again while the task started by its
\* first activation is still in flight starts no worker and sends no event;
\* it only sets the busy status and appends one log line, so exactly one
\* task executes.
C6_SecondActivationIgnored ==
    [][(CallMade /\ NewCall.op = "activate" /\ NewCall.pending > 0) =>
         (/\ workers' = workers
          /\ emitted' = emitted
          /\ chan' = chan
          /\ current' = current
          /\ Cardinality(InFlight) = 1
          /\ app'.status = [level |-> "Info", message |-> BusyMessage]
          /\ Len(app'.logs) = Len(app.logs) + 1
          /\ SubSeq(app'.logs, 1, Len(app.logs)) = app.logs
          /\ [app' EXCEPT !.status = app.status, !.logs = app.logs] = app)]_vars

\* The same action was activated twice, the second time while the first
\* task was in flight, and only one worker exists.
C6_Witness ==
    /\ Len(calls) = 2
    /\ calls[1].op = "activate" /\ calls[1].ret /\ calls[1].pending = 0
    /\ calls[2].op = "activate" /\ calls[2].kind = calls[1].kind
    /\ calls[2].pending = 1 /\ ~calls[2].ret
    /\ Len(workers) = 1

(***************************************************************************)
(* Properties of the release pipeline, over the trace of the current run.  *)
(***************************************************************************)
Trace == rel.steps

Ran(step) == \E i \in DOMAIN Trace : Trace[i].step = step

Passed(step) == \E i \in DOMAIN Trace : Trace[i].step = step /\ Trace[i].ok

PassedBefore(step, i) ==
    \E j \in DOMAIN Trace : j < i /\ Trace[j].step = step /\ Trace[j].ok

GuardrailSteps == {"repo", "remote", "clean", "branch"}

PreflightSteps == {"fmt", "clippy", "test"}

\* The steps that write Cargo.toml, Cargo.lock, the index or the history.
FileSteps == {"bump", "lockfile", "stage", "commit"}

\* The stage of the pipeline a step belongs to; 0 for the prompts, the plan
\* and the commit message, which are not stages of the pipeline.
StageOf(step) ==
    CASE step \in GuardrailSteps -> 1
      [] step \in PreflightSteps -> 2
      [] step \in {"bump", "lockfile"} -> 3
      [] step \in {"stage", "commit"} -> 4
      [] step \in {"tag_local", "tag_remote"} -> 5
      [] step \in {"create_tag", "push_tag"} -> 6
      [] OTHER -> 0

FilesOf(w) ==
    [cargo_version |-> w.cargo_version, lock_refreshed |-> w.lock_refreshed,
     dirty |-> w.dirty, staged |-> w.staged, commits |-> w.commits]

\* C7: no tracked file is modified before every guardrail and every enabled
\* preflight check has succeeded; a run started on a dirty working tree ends
\* before any preflight check runs and before anything is modified. (What the
\* operator does from the recovery menu after the run is not the run's.)
C7_NoWriteBeforeChecks ==
    /\ (~rel.offered /\ FilesOf(world) # FilesOf(rel.world0)) =>
          \E s \in FileSteps : Ran(s)
    /\ \A i \in DOMAIN Trace :
          Trace[i].step \in FileSteps =>
              \A g \in GuardrailSteps \cup PreflightSteps :
                  StepEnabled(g, rel.cfg) => PassedBefore(g, i)
    /\ (rel.pc # "idle" /\ rel.world0.dirty) =>
          /\ \A s \in PreflightSteps \cup FileSteps : ~Ran(s)
          /\ ~rel.offered => world = rel.world0

\* A TUI release wrote the new version after all seven checks had passed.
C7_Witness ==
    /\ rel.flow = "tui"
    /\ Passed("bump")
    /\ world.cargo_version # rel.world0.cargo_version
    /\ \A g \in GuardrailSteps \cup PreflightSteps : Passed(g)

\* C8: the tag is created only after the local and then the remote existence
\* check have both reported it absent; a collision ends the run after the
\* release commit and before any tag is created.
C8_TagAfterCollisionChecks ==
    /\ \A i \in DOMAIN Trace :
          Trace[i].step = "create_tag" =>
              /\ PassedBefore("tag_local", i)
              /\ PassedBefore("tag_remote", i)
              /\ rel.plan.tag \notin rel.world0.tagsLocal
              /\ rel.plan.tag \notin rel.world0.tagsRemote
    /\ \A i \in DOMAIN Trace :
          (Trace[i].step \in {"tag_local", "tag_remote"} /\ ~Trace[i].ok) =>
              /\ PassedBefore("commit", i)
              /\ i = Len(Trace)
              /\ ~Ran("create_tag")
              /\ world.tagsLocal = rel.world0.tagsLocal
              /\ world.tagsRemote = rel.world0.tagsRemote

\* A CLI release created its tag after both checks found none.
C8_Witness ==
    /\ rel.flow = "cli"
    /\ Passed("tag_local") /\ Passed("tag_remote") /\ Passed("create_tag")
    /\ rel.plan.tag \in world.tagsLocal

\* C9: the stages run in the fixed order Guardrails, Preflight, VersionBump,
\* Stage+Commit, CollisionCheck, Tag+Push; no step runs twice; a stage runs
\* only after every enabled step of the stages before it succeeded; the
\* first failure ends the run and is returned.
C9_FixedOrderFailFast ==
    /\ \A i \in DOMAIN Trace : \A j \in DOMAIN Trace :
          i < j =>
              /\ Trace[i].step # Trace[j].step
              /\ (StageOf(Trace[i].step) > 0 /\ StageOf(Trace[j].step) > 0) =>
                    /\ StageOf(Trace[i].step) <= StageOf(Trace[j].step)
                    /\ Trace[i].ok
    /\ \A j \in DOMAIN Trace :
          \A s \in GuardrailSteps \cup PreflightSteps \cup FileSteps
                     \cup {"tag_local", "tag_remote", "create_tag", "push_tag"} :
              (StageOf(s) > 0 /\ StageOf(s) < StageOf(Trace[j].step)
                    /\ StepEnabled(s, rel.cfg)) => PassedBefore(s, j)
    /\ (Trace # <<>> /\ StageOf(Trace[Len(Trace)].step) > 0
            /\ ~Trace[Len(Trace)].ok) =>
          /\ rel.pc = "done"
          /\ (rel.flow \in {"lib", "tui"} \/ StageOf(Trace[Len(Trace)].step) > 1) =>
                (rel.result = "Err" /\ rel.error # "")
    /\ Passed("push_tag") => (rel.pc = "done" /\ rel.result = "Ok")

\* A run of run_tag_release failed at the commit and stopped there.
C9_Witness ==
    /\ rel.flow = "lib"
    /\ Len(Trace) >= 2
    /\ Trace[Len(Trace)] = [step |-> "commit", ok |-> FALSE]
    /\ rel.result = "Err"

ClaimedGuardrailOrder == <<"repo", "remote", "clean", "branch">>

\* Whether the guardrail holds of the repository the run started on.
GuardrailMet(step) ==
    CASE step = "repo" -> rel.world0.inRepo
      [] step = "remote" -> rel.world0.remote
      [] step = "clean" -> ~rel.world0.dirty
      [] step = "branch" ->
            \/ rel.cfg.expected_branch = "None"
            \/ rel.world0.branch = rel.cfg.expected_branch
            \/ rel.override

\* C10: a run gets past Guardrails only if it is in a repository, the remote
\* exists, the tree is clean and the branch matches or the operator overrode
\* it; the guardrails are checked in that order, so the guardrail a run
\* stops at is the first of them, in that order, that does not hold.
C10_GuardrailsInOrder ==
    /\ (\E i \in DOMAIN Trace : StageOf(Trace[i].step) > 1) =>
          \A g \in GuardrailSteps : GuardrailMet(g)
    /\ \A i \in DOMAIN Trace :
          (Trace[i].step \in GuardrailSteps /\ ~Trace[i].ok) =>
              LET unmet == {k \in 1..4 : ~GuardrailMet(ClaimedGuardrailOrder[k])}
              IN  /\ unmet # {}
                  /\ Trace[i].step = ClaimedGuardrailOrder[FirstOf(unmet)]

ValidVersion(v) ==
    LET parts == SplitDots(v)
    IN  /\ Len(parts) = 3
        /\ \A i \in 1..3 :
              /\ parts[i] # ""
              /\ AllDigits(parts[i])
              /\ NumLeq(StripZeros(parts[i]), U64Max)

\* Component i of a valid version, as a number.
Component(v, i) == StripZeros(SplitDots(v)[i])

\* The version the bump is said to yield.
ClaimedBump(v, bump) ==
    CASE bump = "Patch" ->
            FormatVersion(Component(v, 1), Component(v, 2), NextNumber(Component(v, 3)))
      [] bump = "Minor" -> FormatVersion(Component(v, 1), NextNumber(Component(v, 2)), "0")
      [] bump = "Major" -> FormatVersion(NextNumber(Component(v, 1)), "0", "0")

BumpCalled == calc.fn \in {"bump_semver", "cli_bump_semver"} /\ calc.bump \in BumpKinds

\* The component the bump adds one to.
BumpedComponent(v, bump) ==
    Component(v, CASE bump = "Patch" -> 3 [] bump = "Minor" -> 2 [] bump = "Major" -> 1)

\* C16: for every valid x.y.z both bump_semver functions return x.y.(z+1) for
\* Patch, x.(y+1).0 for Minor and (x+1).0.0 for Major.
C16_BumpAsClaimed ==
    (BumpCalled /\ ValidVersion(calc.text)) =>
        calc.out = Ok(ClaimedBump(calc.text, calc.bump))

\* The same for the versions whose bumped component is below u64::MAX.
C16_BumpBelowMax ==
    (/\ BumpCalled
     /\ ValidVersion(calc.text)
     /\ BumpedComponent(calc.text, calc.bump) # U64Max) =>
        calc.out = Ok(ClaimedBump(calc.text, calc.bump))

\* A patch bump of x.y.u64::MAX has returned x.y.0.
C16_Witness ==
    /\ calc.fn = "bump_semver"
    /\ calc.bump = "Patch"
    /\ calc.text = "1.2.18446744073709551615"
    /\ calc.out = Ok("1.2.0")

\* A custom version the claim says is rejected: not three components, an
\* empty or non-numeric component, or the version the file already holds.
RejectedCustom(text, held) ==
    LET parts == SplitDots(text)
    IN  \/ Len(parts) # 3
        \/ \E i \in DOMAIN parts : ~ParseU64(parts[i]).ok
        \/ text = held

NothingPlanned == ~calc.out.ok /\ calc.plan = NoPlan /\ calc.file = calc.file0

LibRejectedCustom ==
    RejectedCustom(Trim(calc.text), ReadCargoPackageVersion(calc.file0).value)

CliRejectedCustom == RejectedCustom(calc.text, ReadCargoVersion(calc.file0).value)

\* C17: custom version planning, in the library and in the CLI flow, returns
\* no plan and changes nothing for a custom version of the wrong arity, with an
\* empty or non-numeric component, or equal to the current version.
C17_CustomRejected ==
    /\ (calc.fn = "plan_custom" /\ LibRejectedCustom) => NothingPlanned
    /\ (calc.fn = "select_version" /\ calc.bump = "Custom" /\ CliRejectedCustom) =>
            NothingPlanned
    /\ (calc.fn = "apply_version_bump" /\ calc.bump = "Custom") => ~LibRejectedCustom
    /\ (calc.fn = "cli_update" /\ calc.bump = "Custom" /\ CliRejectedCustom) =>
            calc.file = calc.file0

\* The library half of C17: plan_custom rejects every such version.
C17_PlanCustomRejects ==
    /\ (calc.fn = "plan_custom" /\ LibRejectedCustom) => NothingPlanned
    /\ (calc.fn = "apply_version_bump" /\ calc.bump = "Custom") => ~LibRejectedCustom

\* The CLI flow has written the two-component version 1.2 to the file.
C17_Witness ==
    /\ calc.fn = "cli_update"
    /\ calc.bump = "Custom"
    /\ calc.text = "1.2"
    /\ calc.out.ok
    /\ ReadCargoVersion(calc.file) = Ok("1.2")

\* The lines an update changed.
ChangedLines ==
    {i \in DOMAIN calc.file0 : Lines(calc.file)[i] # Lines(calc.file0)[i]}

GenericMessage == "chore(release): " \o rel.plan.tag

\* The message step of the run failed at position i of the trace.
MessageFailedAt(i) == Trace[i].step = "genmsg" /\ ~Trace[i].ok

\* The run went on after step i with the generic message.
WentOnWithGeneric(i) ==
    /\ rel.message = GenericMessage
    /\ ~(i = Len(Trace) /\ rel.pc = "done")

\* C19: when the commit message cannot be generated, in the TUI and in the CLI
\* flow, the run does not end there: it goes on with the message
\* chore(release): v<version>.
C19_MessageFailureNeverAborts ==
    \A i \in DOMAIN Trace : MessageFailedAt(i) => WentOnWithGeneric(i)

\* The same, the CLI's failure to read the staged diff set aside.
C19_FallbackExceptCliDiff ==
    \A i \in DOMAIN Trace :
        (MessageFailedAt(i) /\ ~(rel.flow = "cli" /\ i = Len(Trace) /\ rel.pc = "done"
                                   /\ rel.error = "Failed to read the staged diff")) =>
            WentOnWithGeneric(i)

\* A CLI release ended at the message step, the bumped version written and
\* staged, nothing committed.
C19_Witness ==
    /\ rel.flow = "cli"
    /\ rel.pc = "done"
    /\ rel.result = "Err"
    /\ Trace[Len(Trace)] = [step |-> "genmsg", ok |-> FALSE]
    /\ world.cargo_version = rel.plan.new_version
    /\ world.staged
    /\ world.commits = rel.world0.commits

\* The run failed after VersionBump had written the version file.
FailedAfterBump == rel.pc = "done" /\ rel.result = "Err" /\ Passed("bump")

\* The pipeline itself neither rolls the version back nor runs a step again.
NoRetryNoRollback ==
    /\ (Passed("bump") /\ ~rel.offered) => world.cargo_version = rel.plan.new_version
    /\ \A i \in DOMAIN Trace : \A j \in DOMAIN Trace :
          i # j => Trace[i].step # Trace[j].step

\* C20: once the caller of a release that failed after VersionBump has dealt
\* with the failure, the operator has been offered the recovery menu (run the
\* formatter, revert the version files); the pipeline itself neither retries
\* nor rolls back.
C20_RecoveryOffered ==
    /\ (rel.flow \in {"cli", "tui"} /\ FailedAfterBump /\ rel.handled # "none") =>
          (rel.offered /\ rel.handled \in RecoveryChoices)
    /\ NoRetryNoRollback

\* The CLI half of C20.
C20_CliOffersRecovery ==
    /\ (rel.flow = "cli" /\ FailedAfterBump /\ rel.handled # "none") =>
          (rel.offered /\ rel.handled \in RecoveryChoices)
    /\ NoRetryNoRollback

\* A TUI release failed after the bump; handle_confirm set the Error status
\* and the bumped version is still in the file.
C20_Witness ==
    /\ rel.flow = "tui"
    /\ FailedAfterBump
    /\ rel.handled = "status"
    /\ ~rel.offered
    /\ app.status.level = "Error"
    /\ world.cargo_version # rel.world0.cargo_version

(***************************************************************************)
(* The key press last dispatched.                                          *)
(***************************************************************************)
KeyPressed == keys # <<>>

LastKey == keys[Len(keys)]

AcceptedIn(e, kind) ==
    /\ e.layer = "modal"
    /\ e.before.modal.kind = kind
    /\ e.key = Plain("Enter")

\* The key left a modal open that is not the one it found.
OpenedChained(e) ==
    /\ e.before.modal.kind # "None"
    /\ e.after.modal.kind # "None"
    /\ \/ e.after.modal.kind # e.before.modal.kind
       \/ e.after.modal.confirm_purpose # e.before.modal.confirm_purpose
       \/ e.after.modal.input_purpose # e.before.modal.input_purpose

\* C11: the modal is reset to None by Escape in a modal and by Enter on a
\* Confirm modal; a purpose handler (handle_confirm, handle_text_input) is
\* only ever called with the modal already reset to None, and an accepted
\* TextInput with a purpose is forwarded that way; a modal that replaces the
\* one the key found was opened by a handler that saw the modal reset.
C11_ModalResetBeforeForward ==
    KeyPressed =>
        /\ (LastKey.layer = "modal" /\ LastKey.key.code = "Esc")
              => LastKey.after.modal.kind = "None"
        /\ AcceptedIn(LastKey, "Confirm") => LastKey.after.modal.kind = "None"
        /\ LastKey.seen \in {NotForwarded, "None"}
        /\ (AcceptedIn(LastKey, "TextInput")
                /\ LastKey.before.modal.input_purpose # NoPurpose)
              => LastKey.seen = "None"
        /\ OpenedChained(LastKey) => LastKey.seen = "None"

\* Enter accepted the custom release version and the confirmation modal was
\* chained after the reset.
C11_Witness ==
    /\ KeyPressed
    /\ AcceptedIn(LastKey, "TextInput")
    /\ LastKey.seen = "None"
    /\ LastKey.after.modal.kind = "Confirm"
    /\ LastKey.after.modal.confirm_purpose = "ReleaseTrigger"

IndexInBounds(a) ==
    LET len == Len(ActionsFor(a.active_tab))
    IN  IF len = 0 THEN a.action_index = 0 ELSE a.action_index \in 0..(len - 1)

SwitchedTab(e) ==
    /\ e.layer = "navigation"
    /\ e.key.code \in {"Left", "Right"}

MovedSelection(e) ==
    /\ e.layer = "focus"
    /\ e.key.code \in {"Up", "Down"}

\* C12: the selected action index is always inside the catalog of the active
\* tab; a key that switches the tab leaves the index at 0 on a neighbouring
\* tab; Up and Down move the index by at most one and change nothing else of
\* the selection.
C12_IndexInBounds ==
    /\ IndexInBounds(app)
    /\ KeyPressed =>
          /\ IndexInBounds(LastKey.after)
          /\ SwitchedTab(LastKey) =>
                /\ LastKey.after.action_index = 0
                /\ LastKey.after.active_tab # LastKey.before.active_tab
          /\ MovedSelection(LastKey) =>
                /\ LastKey.after.active_tab = LastKey.before.active_tab
                /\ LastKey.after.action_index - LastKey.before.action_index
                      \in {-1, 0, 1}

\* The last entry of the four-entry Stage catalog was selected and a key
\* switched to the three-entry Diff catalog.
C12_Witness ==
    /\ KeyPressed
    /\ SwitchedTab(LastKey)
    /\ LastKey.before.active_tab = "Stage"
    /\ LastKey.before.action_index = 3
    /\ LastKey.after.active_tab = "Diff"
    /\ app.action_index = 0

Returned == term.phase = "returned"

RestoreAttempted ==
    /\ Len(term.restore) = 2
    /\ term.restore[1].call = "EnterAlternateScreen"
    /\ term.restore[2].call = "enable_raw_mode"

RestoreSucceeded == \A i \in DOMAIN term.restore : term.restore[i].ok

Managed == term.raw /\ term.alt

OwnResultReturned ==
    /\ term.returned = term.result
    /\ (KeyPressed /\ LastKey.effect.op = "release") => term.returned = rel.result

Matching(e) ==
    {i \in DOMAIN LayerOrder : Layer(LayerOrder[i], e.before, e.key).handled}

FirstMatching(e) == CHOOSE i \in Matching(e) : \A j \in Matching(e) : i <= j

\* C15: a key press is handled by the first layer, in the order modal, help
\* overlay, navigation, focus, diff scrolling, tab, that consumes it: the App
\* and the call dispatch_key leaves are those of that layer alone, and a key
\* no layer consumes changes nothing.
C15_FirstMatchingLayer ==
    (KeyPressed /\ LastKey.key.kind = "Press") =>
        IF Matching(LastKey) = {}
        THEN /\ ~LastKey.handled
             /\ LastKey.dispatched = LastKey.before
             /\ LastKey.effect = NoEffect
        ELSE LET first == LayerOrder[FirstMatching(LastKey)]
                 r == Layer(first, LastKey.before, LastKey.key)
             IN  /\ LastKey.handled
                 /\ LastKey.layer = first
                 /\ LastKey.dispatched = r.app
                 /\ LastKey.effect = r.effect

\* Escape with a modal open: the modal layer and the navigation layer both
\* consume it, the modal layer handled it and the App did not quit.
C15_Witness ==
    /\ KeyPressed
    /\ LastKey.key.code = "Esc"
    /\ LastKey.before.modal.kind # "None"
    /\ NavLayer(LastKey.before, LastKey.key).handled
    /\ LastKey.layer = "modal"
    /\ ~app.should_quit

(***************************************************************************)
(* The place of the commit message in a release run.                       *)
(***************************************************************************)
MessageAt(i) == Trace[i].step = "genmsg"

NoneBefore(step, i) == \A j \in DOMAIN Trace : j < i => Trace[j].step # step

\* The message step at position i ran after the bumped version was written
\* and everything was staged, and before the commit.
MessageFromStagedBump(i) ==
    /\ PassedBefore("bump", i)
    /\ PassedBefore("stage", i)
    /\ NoneBefore("commit", i)

\* C26: in every release run that generates its commit message, the message
\* is generated after the version bump was written and all changes were
\* staged, and before the commit.
C26_MessageAfterStage ==
    \A i \in DOMAIN Trace : MessageAt(i) => MessageFromStagedBump(i)

\* The same for the CLI flow alone.
C26_CliMessageAfterStage ==
    rel.flow = "cli" => \A i \in DOMAIN Trace : MessageAt(i) => MessageFromStagedBump(i)

\* A TUI release committed with a message that was generated before the
\* guardrails ran, the version was bumped and the changes were staged.
C26_Witness ==
    /\ rel.flow = "tui"
    /\ Passed("commit")
    /\ \E i \in DOMAIN Trace :
          /\ MessageAt(i)
          /\ \A j \in DOMAIN Trace :
                Trace[j].step \in GuardrailSteps \cup {"bump", "stage"} => i < j

(***************************************************************************)
(* Failures as the UI shows them.                                          *)
(***************************************************************************)
\* apply_event applies a Completed event that carries TaskResult::Error.
AppliedError ==
    /\ Len(applied') = Len(applied) + 1
    /\ applied'[Len(applied')].type = "Completed"
    /\ applied'[Len(applied')].result.variant = "Error"

\* A key was dispatched and a call it made failed or its input was rejected.
KeyFailed ==
    /\ nCalls' = nCalls + 1
    /\ keys' # <<>>
    /\ keys'[Len(keys')].failed

\* handle_confirm receives the error of perform_release.
ReleaseFailed ==
    /\ rel.handled = "none"
    /\ rel'.handled = "status"
    /\ rel.result = "Err"

Logged == Len(app'.logs) > Len(app.logs) \/ Len(app'.logs) = LogCap

FailureShown ==
    /\ app'.status.level = "Error"
    /\ Logged
    /\ app'.should_quit = app.should_quit
    /\ uiPc' = "drain"

\* C21: a step in which an action fails (a Completed event with an Error
\* result is applied, a blocking or suspended operation or the version plan
\* returns an error, a start_* function or a purpose handler rejects its
\* input, the release returns an error) leaves the status line at Error
\* level, adds to the log, leaves should_quit as it was and the loop running.
C21_FailuresShown ==
    [][(AppliedError \/ KeyFailed \/ ReleaseFailed) => FailureShown]_vars

\* A release failed under suspension and was reported; the UI did not quit.
C21_Witness ==
    /\ rel.flow = "tui"
    /\ rel.handled = "status"
    /\ rel.result = "Err"
    /\ app.status.level = "Error"
    /\ app.logs # <<>>
    /\ app.logs[Len(app.logs)] = "Release failed: " \o rel.error
    /\ ~app.should_quit
    /\ uiPc = "drain"

(***************************************************************************)
(* Tab switching by the arrow keys.                                        *)
(***************************************************************************)
\* The key was a press that found no modal and no help overlay.
ReachedNavigation(e) ==
    /\ e.key.kind = "Press"
    /\ e.before.modal.kind = "None"
    /\ ~e.before.show_help
    /\ ~(e.key.code = "Char" /\ e.key.ch = "?" /\ e.key.mods = NONE)

TabAfter(t) == IF t = "Config" THEN "Generate" ELSE TabAll[TabPosition(t) + 2]

TabBefore(t) == IF t = "Generate" THEN "Config" ELSE TabAll[TabPosition(t)]

Arrow(e, code, mods) == e.key.code = code /\ e.key.mods = mods

\* C30: with no modal and no help overlay, Alt+Right and Alt+Left move to the
\* following and the preceding tab for every focus; the plain Right and Left
\* do so exactly when the focus is not the commit editor, and leave the tab
\* as it is otherwise; the six tabs wrap around at both ends.
C30_ArrowKeysSwitchTabs ==
    (KeyPressed /\ ReachedNavigation(LastKey)) =>
        /\ Arrow(LastKey, "Right", {"ALT"})
              => LastKey.after.active_tab = TabAfter(LastKey.before.active_tab)
        /\ Arrow(LastKey, "Left", {"ALT"})
              => LastKey.after.active_tab = TabBefore(LastKey.before.active_tab)
        /\ Arrow(LastKey, "Right", NONE)
              => LastKey.after.active_tab =
                    IF LastKey.before.focus # "CommitEditor"
                    THEN TabAfter(LastKey.before.active_tab)
                    ELSE LastKey.before.active_tab
        /\ Arrow(LastKey, "Left", NONE)
              => LastKey.after.active_tab =
                    IF LastKey.before.focus # "CommitEditor"
                    THEN TabBefore(LastKey.before.active_tab)
                    ELSE LastKey.before.active_tab
        /\ Len(TabAll) = 6

\* Alt+Right in the commit editor wrapped from the last tab to the first.
C30_Witness ==
    /\ KeyPressed
    /\ ReachedNavigation(LastKey)
    /\ Arrow(LastKey, "Right", {"ALT"})
    /\ LastKey.before.focus = "CommitEditor"
    /\ LastKey.before.active_tab = "Config"
    /\ app.active_tab = "Generate"

(***************************************************************************)
(* The help overlay.                                                       *)
(***************************************************************************)
HelpOpen(e) ==
    /\ e.key.kind = "Press"
    /\ e.before.modal.kind = "None"
    /\ e.before.show_help

HelpToggle(e) == e.key.code = "Char" /\ e.key.ch = "?" /\ e.key.mods = NONE

ClosesHelp(e) == e.key.code = "Esc" \/ HelpToggle(e)

\* C23: with the help overlay open and no modal, a key press is consumed by
\* the help layer and makes no call outside the App; Escape and the help
\* toggle close the overlay without quitting and change nothing else but the
\* status line; Ctrl+C sets should_quit and nothing else; every other key
\* leaves the whole App (tab, focus, selection, editor text, diff scroll,
\* status) as it was and starts no task.
C23_HelpSwallowsKeys ==
    (KeyPressed /\ HelpOpen(LastKey)) =>
        /\ LastKey.layer = "help"
        /\ LastKey.handled
        /\ LastKey.effect = NoEffect
        /\ ClosesHelp(LastKey) =>
              /\ ~LastKey.after.show_help
              /\ ~LastKey.after.should_quit
              /\ [LastKey.after EXCEPT !.show_help = TRUE, !.status = LastKey.before.status]
                    = LastKey.before
        /\ (~ClosesHelp(LastKey) /\ IsCtrlC(LastKey.key)) =>
              LastKey.after = [LastKey.before EXCEPT !.should_quit = TRUE]
        /\ (~ClosesHelp(LastKey) /\ ~IsCtrlC(LastKey.key)) =>
              LastKey.after = LastKey.before

\* Escape closed the help overlay and the UI keeps running.
C23_Witness ==
    /\ KeyPressed
    /\ HelpOpen(LastKey)
    /\ LastKey.key.code = "Esc"
    /\ ~app.show_help
    /\ ~app.should_quit
    /\ app.status.message = "Help closed."

(***************************************************************************)
(* Keys while a modal is open.                                             *)
(***************************************************************************)
ModalOpen(e) == e.key.kind = "Press" /\ e.before.modal.kind # "None"

\* The key left the main view (tab, focus, selection, help flag) as it was
\* and set should_quit only if it is Ctrl+C.
MainViewKept(e) ==
    /\ e.layer = "modal"
    /\ e.handled
    /\ e.after.active_tab = e.before.active_tab
    /\ e.after.focus = e.before.focus
    /\ e.after.action_index = e.before.action_index
    /\ e.after.show_help = e.before.show_help
    /\ e.after.should_quit # e.before.should_quit => IsCtrlC(e.key)

\* C22 as stated: while a modal is open every key press is consumed by the
\* modal layer, changes neither tab, focus, selected index nor help flag,
\* sets should_quit only as Ctrl+C, and starts no task.
C22_ModalCapturesAllKeys ==
    (KeyPressed /\ ModalOpen(LastKey)) =>
        /\ MainViewKept(LastKey)
        /\ LastKey.effect.op # "start"

\* C22 as the code has it: while a modal is open every key press is consumed
\* by the modal layer, changes neither tab, focus, selected index nor help
\* flag, and sets should_quit only as Ctrl+C; the one key that reaches
\* outside the App is the plain Enter that accepts the modal, whose purpose
\* handler runs with the modal closed and starts the push task of a push
\* modal, runs clear_config, or runs the release.
C22_ModalCapturesAllButAccept ==
    (KeyPressed /\ ModalOpen(LastKey)) =>
        /\ MainViewKept(LastKey)
        /\ LastKey.effect # NoEffect =>
              /\ LastKey.key = Plain("Enter")
              /\ LastKey.seen = "None"
        /\ LastKey.effect.op = "start" =>
              \/ /\ LastKey.before.modal.confirm_purpose = "PushAllTags"
                 /\ LastKey.effect.kind = "PushAllTags"
              \/ /\ LastKey.before.modal.input_purpose = "PushSpecificTag"
                 /\ LastKey.effect.kind = "PushTag"

\* Enter on the "push all tags" confirmation started the push task on a
\* worker and left the main view as it was.
C22_Witness ==
    /\ KeyPressed
    /\ ModalOpen(LastKey)
    /\ LastKey.before.modal.confirm_purpose = "PushAllTags"
    /\ LastKey.effect.op = "start"
    /\ workers # <<>>
    /\ app.active_tab = LastKey.before.active_tab
    /\ app.modal.kind = "None"

(***************************************************************************)
(* Editing the buffer of a TextInput modal.                                *)
(***************************************************************************)
InTextInput(e) == e.key.kind = "Press" /\ e.before.modal.kind = "TextInput"

\* A key that types a character: a character code that is no control
\* character, pressed without Ctrl or Alt. The terminal reports an upper-case
\* letter as its character together with the Shift modifier.
PrintableKey(key) ==
    /\ key.code = "Char"
    /\ ~IsControl(key.ch)
    /\ key.mods \cap {"CONTROL", "ALT"} = {}

Buffer(a) == a.modal.input_value

\* The purpose handler was called with the closed modal and the trimmed
\* buffer, and the key did what the handler returned.
InvokedTrimmed(e) ==
    LET closed == [e.before EXCEPT !.modal = ModalNone]
        r == HandleTextInput(closed, e.before.modal.input_purpose,
                             Trim(Buffer(e.before)))
    IN  /\ e.seen = "None"
        /\ e.dispatched = r.app
        /\ e.effect = r.effect

EditsBuffer(e) ==
    /\ e.key = Plain("Backspace") =>
          /\ Buffer(e.after) = Pop(Buffer(e.before))
          /\ Buffer(e.before) = "" => e.after = e.before
          /\ Buffer(e.before) # "" => Len(Buffer(e.after)) = Len(Buffer(e.before)) - 1
    /\ e.key.code = "Esc" =>
          /\ e.after.modal = ModalNone
          /\ e.effect = NoEffect
    /\ e.key = Plain("Enter") => InvokedTrimmed(e)

\* C24: in a TextInput modal every printable character key appends its
\* character to the input buffer, Backspace removes exactly the last
\* character and does nothing on an empty buffer, Escape discards the buffer
\* with the modal, and Enter calls the handler of the modal's purpose with
\* the buffer trimmed of surrounding whitespace.
C24_TextInputEditing ==
    (KeyPressed /\ InTextInput(LastKey)) =>
        /\ PrintableKey(LastKey.key) =>
              Buffer(LastKey.after) = Buffer(LastKey.before) \o LastKey.key.ch
        /\ EditsBuffer(LastKey)

\* The same for the character keys pressed with no modifier at all: what the
\* code does.
C24_UnmodifiedKeysEdit ==
    (KeyPressed /\ InTextInput(LastKey)) =>
        /\ (PrintableKey(LastKey.key) /\ LastKey.key.mods = NONE) =>
              Buffer(LastKey.after) = Buffer(LastKey.before) \o LastKey.key.ch
        /\ EditsBuffer(LastKey)

\* An upper-case letter was typed into a TextInput modal and the buffer is as
\* it was.
C24_Witness ==
    /\ KeyPressed
    /\ InTextInput(LastKey)
    /\ LastKey.key = Press("Char", "A", {"SHIFT"})
    /\ app.modal.kind = "TextInput"
    /\ Buffer(app) = Buffer(LastKey.before)

(***************************************************************************)
(* The release waits for its confirmation.                                 *)
(***************************************************************************)
ReleaseActions == {"ReleasePatch", "ReleaseMinor", "ReleaseMajor", "ReleaseCustom"}

\* The key dispatched in this step.
Dispatching == nCalls' = nCalls + 1 /\ keys' # <<>>

ThisKey == keys'[Len(keys')]

ActivatesRelease(e) ==
    /\ e.layer = "focus"
    /\ e.key = Plain("Enter")
    /\ e.before.focus = "LeftPane"
    /\ SelectedAction(e.before) \in ReleaseActions

AcceptsCustomVersion(e) ==
    /\ AcceptedIn(e, "TextInput")
    /\ e.before.modal.input_purpose = "ReleaseCustomVersion"

ConfirmsRelease(e) ==
    /\ AcceptedIn(e, "Confirm")
    /\ e.before.modal.confirm_purpose = "ReleaseTrigger"

CancelsModal(e) == e.layer = "modal" /\ e.key.code = "Esc"

Untouched == world' = world /\ rel' = rel

BeforeConfirmation ==
    /\ (Dispatching /\ (ActivatesRelease(ThisKey) \/ AcceptsCustomVersion(ThisKey)
                            \/ CancelsModal(ThisKey)))
          => Untouched
    /\ (Dispatching /\ AcceptsCustomVersion(ThisKey)
            /\ Trim(ThisKey.before.modal.input_value) # "")
          => /\ app'.modal.kind = "Confirm"
             /\ app'.modal.confirm_purpose = "ReleaseTrigger"
             /\ app'.pending_release_version = Trim(ThisKey.before.modal.input_value)
    /\ rel'.run # rel.run => Dispatching /\ ConfirmsRelease(ThisKey)
    /\ (uiPc = "suspended" /\ world' # world)
          => KeyPressed /\ ConfirmsRelease(LastKey) /\ rel.run > 0

\* C25: activating a release action, accepting the custom version and
\* cancelling a modal with Escape leave the repository, its files and the
\* release run as they were; an accepted custom version only opens the
\* ReleaseTrigger confirmation with the version pending; a release run starts
\* only on Enter on the ReleaseTrigger confirmation, and the release steps
\* that change the repository run only after it.
C25_NothingMutatesBeforeConfirm == [][BeforeConfirmation]_vars

\* A custom version was accepted: the confirmation is open, no release has
\* run and the repository is as it was.
C25_Witness ==
    /\ KeyPressed
    /\ AcceptsCustomVersion(LastKey)
    /\ app.modal.kind = "Confirm"
    /\ app.modal.confirm_purpose = "ReleaseTrigger"
    /\ app.pending_release_version # NoVersion
    /\ rel.run = 0
    /\ rel.pc = "idle"
    /\ world = rel.world0

(***************************************************************************)
(* Which actions run on the worker and which under suspension.             *)
(***************************************************************************)
InteractiveOperations == {"StagePatch", "UnstagePatch", "RunSetupWizard"}

InteractiveActions == InteractiveOperations \cup ReleaseActions

\* Enter activated the selected action of the action list.
Activated(e) ==
    /\ e.layer = "focus"
    /\ e.key = Plain("Enter")
    /\ e.before.focus = "LeftPane"
    /\ SelectedAction(e.before) # NoAction

LeaveAttempted ==
    /\ Len(term.left) = 2
    /\ term.left[1].call = "disable_raw_mode"
    /\ term.left[2].call = "LeaveAlternateScreen"

LeaveSucceeded == \A i \in DOMAIN term.left : term.left[i].ok

ReleaseRunning == rel.flow = "tui" /\ rel.pc \notin {"idle", "done"}

\* The routing of an activation is a function of the action; what is started
\* through the task runner is never suspended, and no interactive operation
\* is on a worker.
StaticRouting(e) ==
    /\ Activated(e) => (e.suspended <=> SelectedAction(e.before) \in InteractiveActions)
    /\ e.effect.op = "start" =>
          /\ ~e.suspended
          /\ e.effect.kind \in TaskKinds
    /\ (e.effect.op = "blocking" /\ e.effect.name \in InteractiveOperations)
          => e.suspended
    /\ e.effect.op = "release" => e.suspended
    /\ \A i \in DOMAIN workers : workers[i].kind \in TaskKinds
    /\ TaskKinds \cap InteractiveActions = {}

NonInteractiveActions ==
    {"GenerateFromStaged", "Commit", "StageAll", "UnstageAll", "ViewStaged",
     "ViewUnstaged", "ViewBoth", "PushBranch"}

OnWorkerOrSuspended(e, actions) ==
    /\ (Activated(e) /\ SelectedAction(e.before) \in actions) => e.effect.op = "start"
    /\ (e.effect.op = "blocking" /\ e.effect.name \in GitOperations) => e.suspended

\* C28: every non-interactive git or tooling subprocess call of an
\* activation is handed to the task runner, and a git operation that runs on
\* the UI thread runs only inside with_tui_suspended.
C28_SubprocessOffUiThread ==
    KeyPressed => OnWorkerOrSuspended(LastKey, NonInteractiveActions)

\* The same for every action but "unstage all".
C28_AllButUnstageAll ==
    (KeyPressed /\ LastKey.effect # Blocking("UnstageAll"))
        => OnWorkerOrSuspended(LastKey, NonInteractiveActions \ {"UnstageAll"})

\* "Unstage all" ran git on the UI thread with the terminal in the managed
\* mode and no worker.
C28_Witness ==
    /\ KeyPressed
    /\ Activated(LastKey)
    /\ LastKey.effect = Blocking("UnstageAll")
    /\ ~LastKey.suspended
    /\ term = ManagedTerm
    /\ workers = <<>>
    /\ app.status.level \in {"Success", "Error"}

(***************************************************************************)
(* What a Completed event changes in the App.                              *)
(***************************************************************************)
AppliedCompleted ==
    /\ Len(applied') = Len(applied) + 1
    /\ applied'[Len(applied')].type = "Completed"

ResultApplied == applied'[Len(applied')].result

\* The fields of the App outside `changed` are as they were.
OnlyChanged(changed) == \A f \in (DOMAIN app) \ changed : app'[f] = app[f]

StatusAndLog == {"status", "logs"}

UpdateOf(result) ==
    CASE result.variant = "Error" ->
            /\ OnlyChanged(StatusAndLog)
            /\ app'.status = [level |-> "Error", message |-> result.message]
            /\ Logged
      [] result.variant = "OkMessage" ->
            /\ OnlyChanged(StatusAndLog)
            /\ app'.status = [level |-> "Success", message |-> result.status]
      [] result.variant = "GeneratedCommitMessage" ->
            /\ OnlyChanged(StatusAndLog \cup {"commit_text", "diff_source_label",
                                              "diff_summary", "provider_label",
                                              "model_label"})
            /\ app'.commit_text = result.message
            /\ app'.diff_summary = result.summary
            /\ app'.provider_label = result.provider
            /\ app'.model_label = result.model
            /\ app'.status.level = "Success"
      [] result.variant = "LoadedDiff" ->
            /\ OnlyChanged(StatusAndLog \cup {"diff_text", "diff_scroll",
                                              "diff_view_source"})
            /\ app'.diff_text = result.text
            /\ app'.diff_view_source = result.source
            /\ app'.diff_scroll = 0
            /\ app'.status.level = "Success"

\* C29: the step that applies a Completed event makes the update of its
\* result variant and no other: Error and OkMessage change the status line
\* and the log only (editor, diff buffer, diff scroll and labels stay);
\* GeneratedCommitMessage also replaces the editor text and the context
\* labels; LoadedDiff also replaces the diff buffer and its source and resets
\* the scroll offset to 0.
C29_CompletedUpdatesOnlyItsVariant ==
    [][AppliedCompleted => UpdateOf(ResultApplied)]_vars

\* A diff was loaded over one that was scrolled down: the buffer holds the
\* new text and the scroll offset is back at 0.
C29_Witness ==
    /\ KeyPressed
    /\ LastKey.before.diff_scroll = 5
    /\ LastKey.effect.op = "start"
    /\ LastKey.effect.kind = "LoadDiff"
    /\ applied # <<>>
    /\ applied[Len(applied)].type = "Completed"
    /\ applied[Len(applied)].result.variant = "LoadedDiff"
    /\ app.diff_text = applied[Len(applied)].result.text
    /\ app.diff_scroll = 0

(***************************************************************************)
(* The Generate tab: shortcuts and typing.                                 *)
(***************************************************************************)
OnGenerate(e) == ReachedNavigation(e) /\ e.before.active_tab = "Generate"

\* One of the shortcuts of handle_generate_key did its work.
ShortcutTookEffect(e) ==
    /\ e.layer = "tab"
    /\ \/ e.key = Char("g") /\ e.effect = StartTask("GenerateCommitFromStaged", "-")
       \/ e.key = Plain("Enter") /\ e.effect = StartTask("CommitFromEditor", "-")
       \/ e.key = Char("c") /\ e.dispatched = ClearEditor(e.before)

Typed(e) == e.after.commit_text = e.before.commit_text \o e.key.ch

\* C31: on the Generate tab the shortcuts for generate, commit and clear
\* take effect only when the focus is not the action list, and a printable
\* character pressed while the commit editor has the focus is inserted into
\* the editor.
C31_ShortcutsAndTyping ==
    (KeyPressed /\ OnGenerate(LastKey)) =>
        /\ ShortcutTookEffect(LastKey) => LastKey.before.focus # "LeftPane"
        /\ (LastKey.before.focus = "CommitEditor" /\ PrintableKey(LastKey.key))
              => Typed(LastKey)

\* What the code does: the shortcuts take effect for every focus, the commit
\* editor included, and the printable characters that are no shortcut are
\* inserted while the commit editor has the focus.
C31_ShortcutsForEveryFocus ==
    (KeyPressed /\ OnGenerate(LastKey)) =>
        /\ LastKey.key \in {Char("g"), Char("c")} => ShortcutTookEffect(LastKey)
        /\ (LastKey.key = Plain("Enter") /\ LastKey.before.focus # "LeftPane")
              => ShortcutTookEffect(LastKey)
        /\ (LastKey.before.focus = "CommitEditor" /\ PrintableKey(LastKey.key)
                /\ LastKey.key \notin {Char("g"), Char("c")})
              => Typed(LastKey)

\* The letter c was typed into a commit message and the message is gone.
C31_Witness ==
    /\ KeyPressed
    /\ OnGenerate(LastKey)
    /\ LastKey.before.focus = "CommitEditor"
    /\ LastKey.before.commit_text # ""
    /\ LastKey.key = Char("c")
    /\ app.commit_text = ""

(***************************************************************************)
(* The tabs other than Generate act through the action list only.          *)
(***************************************************************************)
OffGenerate(e) ==
    /\ e.key.kind = "Press"
    /\ e.before.modal.kind = "None"
    /\ e.before.active_tab # "Generate"

\* The key started a task, ran an operation or the release, or opened a
\* modal.
Acted(e) == e.effect # NoEffect \/ e.after.modal.kind # "None"

EnterTip == "Tip: Tab to focus Actions, then Up/Down and Enter to run."

ViewportHeights == {0, 1, 22}

ScrollKeys == {"Up", "Down", "PageUp", "PageDown", "Home"}

\* A scroll key reached the diff viewer.
Scrolled(e) ==
    /\ e.layer = "diff"
    /\ e.before.active_tab = "Diff"
    /\ e.before.focus # "LeftPane"
    /\ e.key.code \in ScrollKeys

InRange(a) == \A h \in ViewportHeights : a.diff_scroll \in 0..MaxScroll(a, h)

ScrollsBack(e) ==
    /\ e.key.code = "Home" => e.after.diff_scroll = 0
    /\ e.key.code \in {"Up", "PageUp"} =>
          /\ e.after.diff_scroll >= 0
          /\ e.after.diff_scroll <= e.before.diff_scroll
    /\ e.key.code \in {"Down", "PageDown"} =>
          e.after.diff_scroll > e.before.diff_scroll

\* C33: a scroll key pressed in the diff viewer with the stored offset between
\* 0 and max(0, total_lines - viewport_height) leaves the stored offset in
\* that range; Home sets it to 0 and Up and PageUp never take it below 0.
C33_StoredScrollInRange ==
    (KeyPressed /\ Scrolled(LastKey) /\ InRange(LastKey.before)) =>
        /\ InRange(LastKey.after)
        /\ ScrollsBack(LastKey)

\* What the code keeps: the stored offset never goes below 0, Home sets it
\* to 0, Up and PageUp do not raise it, Down and PageDown raise it whatever
\* the length of the diff, and the offset the viewer draws with is in range.
C33_DrawnScrollInRange ==
    /\ app.diff_scroll >= 0
    /\ \A h \in ViewportHeights : DrawnScroll(app, h) \in 0..MaxScroll(app, h)
    /\ (KeyPressed /\ Scrolled(LastKey)) => ScrollsBack(LastKey)

\* Down in the viewer of an empty diff: the stored offset is 1, past the end,
\* and the viewer draws from 0.
C33_Witness ==
    /\ KeyPressed
    /\ Scrolled(LastKey)
    /\ LastKey.key = Plain("Down")
    /\ LastKey.before.diff_scroll = 0
    /\ LineCount(app.diff_text) = 0
    /\ app.diff_scroll = 1
    /\ \A h \in ViewportHeights : DrawnScroll(app, h) = 0

(***************************************************************************)
(* App::log on a log that fills up (src/tui/app.rs 541-546). The log       *)
(* starts as a run of earlier appends left it, short of the cap or at it;  *)
(* calc.appended is every line ever appended, in order.                    *)
(***************************************************************************)
MaxAppends == 5

LogLines == {"Loaded diff.", "Error: failed"}

EarlierLines(n) == [i \in 1..n |-> "line " \o ToString(i)]

LogStart ==
    /\ current = NoTask
    /\ chan = <<>>
    /\ workers = <<>>
    /\ \E n \in {0, LogCap - 2, LogCap - 1, LogCap} :
          /\ app = [InitApp EXCEPT !.logs = EarlierLines(n)]
          /\ calc = [fn |-> "log", started |-> n, appended |-> EarlierLines(n)]
    /\ uiPc = "drain"
    /\ nCalls = 0
    /\ emitted = <<>>
    /\ applied = <<>>
    /\ calls = <<>>
    /\ lockAtSend = <<>>
    /\ world = QuietWorld
    /\ rel = IdleRelease(QuietWorld)
    /\ term = ManagedTerm
    /\ keys = <<>>

CallLog(line) ==
    /\ Len(calc.appended) < calc.started + MaxAppends
    /\ app' = Log(app, line)
    /\ calc' = [calc EXCEPT !.appended = Append(@, line)]
    /\ UNCHANGED <<current, chan, workers, uiPc, nCalls, emitted, applied, calls, rel, world, lockAtSend, term, keys>>

LogNext == \E line \in LogLines : CallLog(line)

LogSpec == LogStart /\ [][LogNext]_vars

\* The last n lines of a sequence, all of it if it is shorter.
Newest(lines, n) ==
    IF Len(lines) <= n THEN lines ELSE SubSeq(lines, Len(lines) - n + 1, Len(lines))

\* C34: after any sequence of appends the log holds at most 200 entries, and
\* they are the lines appended last, in the order they were appended.
C34_LogKeepsNewest ==
    /\ Len(app.logs) <= LogCap
    /\ app.logs = Newest(calc.appended, LogCap)

\* More than 200 lines were appended: the log is full, its last entry is the
\* line appended last and the first line appended is gone.
C34_Witness ==
    /\ Len(calc.appended) > LogCap + 1
    /\ Len(app.logs) = LogCap
    /\ app.logs[LogCap] = calc.appended[Len(calc.appended)]
    /\ app.logs[1] = calc.appended[Len(calc.appended) - LogCap + 1]
    /\ app.logs[1] # calc.appended[1]

(***************************************************************************)
(* The frame the render loop draws.                                        *)
(***************************************************************************)
\* The loop has drained the channel, taken the snapshot and drawn: it waits
\* for input.
FrameDrawn == uiPc = "input"

\* C35: in a drawn frame the snapshot of the running task in the App is
\* present exactly when the task runner is busy, which is exactly when a
\* task was started whose Completed has not been applied, and it is the
\* running task of the runner, with the label of that task.
C35_SnapshotMatchesBusy ==
    FrameDrawn =>
        /\ app.running_task # NoTask <=> IsBusy(current)
        /\ app.running_task = current
        /\ IsBusy(current) <=> InFlight # {}
        /\ \A t \in InFlight :
              app.running_task.label = LabelOf(workers[t].kind, workers[t].arg)

\* A frame drawn while a commit is in flight shows its label; the worker has
\* not finished.
C35_Witness ==
    /\ FrameDrawn
    /\ InFlight # {}
    /\ \E t \in InFlight : workers[t].kind = "CommitFromEditor" /\ workers[t].pc # "done"
    /\ app.running_task # NoTask
    /\ app.running_task.label = "Committing..."
    /\ \E i \in DOMAIN applied : applied[i].type = "Completed"

(***************************************************************************)
(* The version a release confirmation asks about.                          *)
(***************************************************************************)
ReleaseConfirmOpen(a) ==
    a.modal.kind = "Confirm" /\ a.modal.confirm_purpose = "ReleaseTrigger"

\* The message is one of the two questions of the final confirmation, asked
\* about version v.
NamesVersion(message, v) ==
    \/ message = CustomQuestion(v)
    \/ \E old \in Versions : message = BumpQuestion(old, v, "v" \o v)

MissingVersion == "No pending release version."

\* C36: whenever the ReleaseTrigger confirmation is open, a pending release
\* version is set and it is the version the message of the modal names;
\* Enter on the confirmation calls perform_release with that version and
\* never takes the "No pending release version." branch.
C36_ConfirmedVersionIsPending ==
    /\ ReleaseConfirmOpen(app) =>
          /\ app.pending_release_version # NoVersion
          /\ NamesVersion(app.modal.message, app.pending_release_version)
    /\ (KeyPressed /\ ConfirmsRelease(LastKey)) =>
          /\ LastKey.effect = PerformRelease(LastKey.before.pending_release_version)
          /\ NamesVersion(LastKey.before.modal.message, LastKey.effect.version)
          /\ LastKey.dispatched.status.message # MissingVersion
          /\ rel.requested = LastKey.effect.version

\* A patch release was planned from 1.2.3, its confirmation named 1.2.4 and
\* Enter started the release of 1.2.4.
C36_Witness ==
    /\ KeyPressed
    /\ ConfirmsRelease(LastKey)
    /\ LastKey.before.modal.message = BumpQuestion("1.2.3", "1.2.4", "v1.2.4")
    /\ LastKey.effect = PerformRelease("1.2.4")
    /\ rel.flow = "tui"
    /\ rel.requested = "1.2.4"

(***************************************************************************)
(* The shape of the modal.                                                 *)
(***************************************************************************)
ConfirmPurposes == {"ClearConfig", "PushAllTags", "ReleaseTrigger"}

TextInputPurposes == {"PushSpecificTag", "ReleaseCustomVersion"}

WellFormedModal(m) ==
    CASE m.kind = "None" ->
            /\ m.confirm_purpose = NoPurpose
            /\ m.input_purpose = NoPurpose
            /\ m.input_value = ""
      [] m.kind = "Confirm" ->
            /\ m.confirm_purpose \in ConfirmPurposes
            /\ m.input_purpose = NoPurpose
      [] m.kind = "TextInput" ->
            /\ m.input_purpose \in TextInputPurposes
            /\ m.confirm_purpose = NoPurpose
      [] OTHER -> FALSE

\* C37: in every reachable state the kind of the modal and its purposes
\* agree: a Confirm modal has a confirm purpose and no input purpose, a
\* TextInput modal an input purpose and no confirm purpose, and with no modal
\* both purposes are unset and the input buffer is empty. The same holds for
\* the App a purpose handler is given.
C37_ModalTagsAgree ==
    /\ WellFormedModal(app.modal)
    /\ KeyPressed => WellFormedModal(LastKey.dispatched.modal)

\* Escape closed a TextInput modal that held text: purpose and buffer went
\* with it.
C37_Witness ==
    /\ KeyPressed
    /\ LastKey.before.modal.kind = "TextInput"
    /\ LastKey.before.modal.input_value # ""
    /\ LastKey.key.code = "Esc"
    /\ app.modal = ModalNone

(***************************************************************************)
(* Repository operations of the UI thread against background tasks.        *)
(***************************************************************************)
\* The background tasks that touch the repository.
RepoTaskKinds == {"CommitFromEditor", "StageAll", "PushBranch", "PushTag", "PushAllTags"}

\* The workers of such tasks whose closure has not returned yet.
RepoTasksRunning ==
    {t \in DOMAIN workers : workers[t].kind \in RepoTaskKinds /\ workers[t].pc # "done"}

\* A step in which the UI thread itself runs a repository operation: a key
\* that runs stage/unstage or "unstage all", or a step of the release
\* pipeline that changes the repository.
UiRepoOperation ==
    \/ /\ Dispatching
       /\ ThisKey.effect.op = "blocking"
       /\ ThisKey.effect.name \in GitOperations
    \/ /\ uiPc = "suspended"
       /\ rel.flow = "tui"
       /\ world' # world

\* C38: the release pipeline, "unstage all" and interactive stage/unstage
\* never execute on the UI thread while a background task that touches the
\* repository is in flight.
C38_OneRepoMutationAtATime ==
    [][UiRepoOperation => RepoTasksRunning = {}]_vars

\* "Unstage all" has just run on the UI thread and the worker of the task
\* that was in flight when Enter was pressed is still running.
C38_Witness ==
    /\ KeyPressed
    /\ LastKey.effect = Blocking("UnstageAll")
    /\ LastKey.before.running_task # NoTask
    /\ uiPc = "drain"
    /\ RepoTasksRunning # {}

\* The release pipeline has committed the bump while the worker of a
\* "stage all" task is still running.
C38_ReleaseWitness ==
    /\ ReleaseRunning
    /\ world.commits > 0
    /\ \E t \in RepoTasksRunning : workers[t].kind = "StageAll"

(***************************************************************************)
(* What a failed release leaves behind.                                    *)
(***************************************************************************)
\* run_tag_release has returned an error.
LibraryRunFailed == rel.flow = "lib" /\ rel.pc = "done" /\ rel.result = "Err"

\* The local tags this run has created.
TagsCreated == world.tagsLocal \ rel.world0.tagsLocal

\* C39: whenever run_tag_release returns an error, the run has left no local
\* tag named plan.tag that did not exist before the run.
C39_FailedRunLeavesNoTag ==
    LibraryRunFailed => rel.plan.tag \notin TagsCreated

\* run_tag_release created the tag, the push failed, and the error was
\* returned with the new tag still in the local repository and not on the
\* remote.
C39_Witness ==
    /\ LibraryRunFailed
    /\ Trace[Len(Trace)] = [step |-> "push_tag", ok |-> FALSE]
    /\ Passed("create_tag")
    /\ rel.plan.tag \in TagsCreated
    /\ rel.plan.tag \notin world.tagsRemote

\* The "revert release changes" action of the recovery menu has returned Ok
\* after a failed release.
RevertCompleted ==
    /\ rel.flow = "cli"
    /\ rel.result = "Err"
    /\ rel.handled = "RevertReleaseChanges"
    /\ rel.recovery = "Ok"

\* C40: after the "revert release changes" recovery action completes
\* following a failed release, the version file declares the version it had
\* before the release was started, whichever step failed.
C40_RevertRestoresVersion ==
    RevertCompleted => world.cargo_version = rel.world0.cargo_version

\* The release failed after the bump was staged; the revert completed and
\* the version file still declares the new version.
C40_Witness ==
    /\ RevertCompleted
    /\ Passed("bump")
    /\ Passed("stage")
    /\ world.cargo_version = rel.plan.new_version
    /\ world.cargo_version # rel.world0.cargo_version

\* The release failed at the bump itself or before it; the revert completed
\* and the version file declares the version the release started from.
C40_RevertedWitness ==
    /\ RevertCompleted
    /\ ~Passed("stage")
    /\ world.cargo_version = rel.world0.cargo_version

====
